---- MODULE Spec2Model ----
(***************************************************************************)
(* Model of FlightDataProcessor (the in-memory caching processor of the    *)
(* flight scheduler): the per-airport cache with its five-minute freshness *)
(* test, the flight-log source, and the statistics derived from a log.     *)
(*                                                                         *)
(* JavaScript numbers are modelled exactly (rationals); a result that the  *)
(* code rounds to two decimals is held in hundredths ("cents").            *)
(*                                                                         *)
(* The statistics, the peak hour analysis, the map of the real-time update *)
(* and the airline lookup are also applied on their own to enumerated      *)
(* inputs, each under a specification of its own.                          *)
(*                                                                         *)
(* An async method is a call in a slot of Calls: it runs to its await in   *)
(* one step and from the settled await to its return in another, so that   *)
(* calls interleave where the event loop lets them.  The await of the      *)
(* flight-log source settles with the sample log or rejects.               *)
(***************************************************************************)
EXTENDS Integers, Sequences, FiniteSets, TLC

VARIABLES
    dataCache,    \* Map<string, ProcessedFlightData[]>: a function on the keys present
    lastUpdated,  \* Map<string, Date>: key -> time of the last write, in ms
    now,          \* Date.now(), in ms
    pc,           \* per call: position of the async call
    op,           \* per call: the public method called
    arg,          \* per call: its airportCode argument
    flightData,   \* per call: the local flightData of the caller
    result,       \* per call: what the promise settled with
    fetches,      \* per call: number of invocations of the flight-log source
    lastLoad,     \* per key: the last successful getFlightData that loaded, if no write since
    rtuCount,     \* number of getRealTimeUpdates calls so far
    inLog,        \* input of the function under test: a flight log
    outStats,     \* result of the statistics of inLog
    phase,        \* which function is under test, and whether it has been applied
    outPeaks,     \* result of the peak hour analysis of inLog
    outLog,       \* result of the real-time update of inLog
    drawn,        \* its randomDelay, per selected index
    inNumber,     \* input of the airline lookup: a flight number, as its characters
    outAirline,   \* its result
    outReport,    \* result of the peak-hours analysis of the flight-data route
    heap,         \* the flight record objects allocated so far; a reference is an index
    outRefs,      \* the array returned by the map of the real-time update, as references
    totalRequests,    \* systemMetrics.totalRequests of the health route
    errorCount,       \* systemMetrics.errorCount
    responseTimes,    \* systemMetrics.responseTimes
    healthReply,      \* the last response of a health GET
    lastPollAt,       \* the time of the polling client's latest getRealTimeUpdates call, -1 before the first
    pollFor,          \* the airport code the client polls, "none" before the first call
    pollsDecided,     \* the number of calls the client has made or is making
    tracking,         \* per call: the flight-tracking request the slot serves, and how far it is
    trackingReply,    \* per call: the last response of the flight-tracking POST
    socketStatus,     \* the socket of one client: "absent", "connected" or "disconnected"
    intervals,        \* the intervals set for the socket, in the order of their setInterval
    disconnectListeners, \* the listeners of disconnect that clear an interval, as the interval each clears
    pendingQueries,   \* the database queries in flight, each as <<interval, tick>>
    tickCount,        \* the number of interval callbacks run so far
    emitted,          \* the updates passed to socket.emit, in order
    failed,           \* the ticks whose query failed and was logged, in order
    aiCall,           \* the request an AI route serves: its handler, how far it is, the completion it got and whether its result was stored
    aiReply           \* the last response of an AI route

\* The state of the health route
healthVars == <<totalRequests, errorCount, responseTimes, healthReply>>

\* The state of the servers around the processor
\* The state of a client that polls getRealTimeUpdates
pollerVars == <<lastPollAt, pollFor, pollsDecided>>

\* The state of the flight-tracking route
trackingVars == <<tracking, trackingReply>>

\* The state of the socket server, for one socket
socketVars == <<socketStatus, intervals, disconnectListeners, pendingQueries, tickCount,
                emitted, failed>>

\* The state of the four routes that ask the AI completion API
aiVars == <<aiCall, aiReply>>

serverVars == <<healthVars, pollerVars, trackingVars, socketVars, aiVars>>

\* What the steps of one server leave alone of the others
besideHealth == <<pollerVars, trackingVars, socketVars, aiVars>>
besidePoller == <<healthVars, trackingVars, socketVars, aiVars>>
besideTracking == <<healthVars, pollerVars, socketVars, aiVars>>
besideSocket == <<healthVars, pollerVars, trackingVars, aiVars>>
besideAI == <<healthVars, pollerVars, trackingVars, socketVars>>

vars == <<dataCache, lastUpdated, now, pc, op, arg, flightData, result, fetches,
          lastLoad, rtuCount, inLog, outStats, phase, outPeaks, outLog, drawn,
          inNumber, outAirline, outReport, heap, outRefs, serverVars>>

engineVars == <<dataCache, lastUpdated, now, pc, op, arg, flightData, result, fetches,
                lastLoad, rtuCount>>

pureVars == <<inLog, outStats, phase, outPeaks, outLog, drawn, inNumber, outAirline,
              outReport, heap, outRefs>>

statsVars == <<pureVars, serverVars>>

----------------------------------------------------------------------------
(* Bounds *)

MaxUpdates == 1      \* getRealTimeUpdates calls per behaviour of the whole engine
MaxPolls == 2        \* getRealTimeUpdates calls per behaviour of the polled engine
MaxLen == 3          \* length of the enumerated short logs
AvgLen == 8          \* length of the enumerated long logs (means with a half cent)
NearFull == 834      \* flights per hour in the enumerated nearly full day
MaxPeakLen == 5      \* length of the enumerated logs of the peak hour analysis
MaxUpdLen == 2       \* length of the enumerated logs of the real-time update
MaxNumberLen == 3    \* length of the enumerated flight numbers
RandomGrid == 30     \* Math.random() takes the values k / RandomGrid, 0 <= k < RandomGrid
MaxResidentLen == 2  \* length of the enumerated resident arrays
MaxTrackedUpdates == 1  \* getRealTimeUpdates calls of the flight-tracking route
MaxIntervals == 2    \* request-...-updates events of the socket
MaxTicks == 3        \* callbacks run by the intervals of the socket
MaxRepeats == 3      \* getRealTimeUpdates calls of the polling client
MaxReportLen == 3    \* length of the enumerated logs of the peak-hours report
MaxChecks == 102     \* health GET requests
MaxErrorLogs == 2    \* health POST requests

----------------------------------------------------------------------------
(* Data *)

Absent == {}                      \* delayMinutes?: undefined
Some(d) == {d}                    \* delayMinutes: d
ValueOf(o) == CHOOSE x \in o : TRUE

\* f.delayMinutes || 0
OrZero(o) == IF o = Absent THEN 0 ELSE ValueOf(o)

Abs(x) == IF x < 0 THEN -x ELSE x

Max(a, b) == IF a > b THEN a ELSE b

FlightStatus == {"SCHEDULED", "DELAYED", "DEPARTED", "ARRIVED", "CANCELLED"}

ProcessedFlightData(i, fn, st, dm, hr) ==
    [id |-> i, flightNumber |-> fn, status |-> st, delayMinutes |-> dm,
     airportCode |-> "BOM", scheduledHour |-> hr]

simulateCSVLoading ==
    << ProcessedFlightData("1", "AI101", "DEPARTED", Some(20), 6),
       ProcessedFlightData("2", "AI102", "DEPARTED", Some(17), 6),
       ProcessedFlightData("3", "AI103", "DEPARTED", Some(8), 6),
       ProcessedFlightData("4", "AI104", "ARRIVED", Some(0), 6),
       ProcessedFlightData("5", "AI105", "DELAYED", Some(44), 6) >>

----------------------------------------------------------------------------
(* JavaScript numbers *)

NaN == [kind |-> "NaN", cents |-> 0]
Infinity == [kind |-> "Infinity", cents |-> 0]
NegInfinity == [kind |-> "-Infinity", cents |-> 0]
Finite(c) == [kind |-> "finite", cents |-> c]

\* (mutant) the fraction is cut off instead of rounded
MathRound_Truncates(p, q) == p \div q

\* Math.round(p / q) for q > 0: the nearest integer, a half going up
MathRound(p, q) == (2 * p + q) \div (2 * q)

\* Math.round((p / q) * 100) / 100, in cents; q >= 0
RoundTo2(p, q) ==
    IF q = 0
    THEN IF p = 0 THEN NaN ELSE IF p > 0 THEN Infinity ELSE NegInfinity
    ELSE Finite(MathRound(100 * p, q))

----------------------------------------------------------------------------
(* getAirportStatistics, the part after the log is obtained *)

\* flightData.reduce((sum, f) => sum + (f.delayMinutes || 0), 0) over the records
\* lo..hi; integer addition is associative, so the range is summed by halves
RECURSIVE SumDelaysIn(_, _, _)
SumDelaysIn(fd, lo, hi) ==
    IF lo > hi THEN 0
    ELSE IF lo = hi THEN OrZero(fd[lo].delayMinutes)
    ELSE LET mid == (lo + hi) \div 2
         IN SumDelaysIn(fd, lo, mid) + SumDelaysIn(fd, mid + 1, hi)

SumDelays(fd) == SumDelaysIn(fd, 1, Len(fd))

\* (mutant) any non-zero delay counts as delayed
IsDelayed_NonZero(f) == f.delayMinutes # Absent /\ ValueOf(f.delayMinutes) # 0

\* f.delayMinutes && f.delayMinutes > 0
IsDelayed(f) == f.delayMinutes # Absent /\ ValueOf(f.delayMinutes) # 0
                /\ ValueOf(f.delayMinutes) > 0

\* flightData.filter(f => f.delayMinutes && f.delayMinutes > 0).length
DelayedFlights(fd) == Cardinality({i \in DOMAIN fd : IsDelayed(fd[i])})

\* hourlyCounts.get(hour) || 0, on a Map held as the sequence of its
\* <<hour, count>> entries in insertion order
MapGetOrZero(m, hour) ==
    IF \E k \in DOMAIN m : m[k][1] = hour
    THEN m[CHOOSE k \in DOMAIN m : m[k][1] = hour][2]
    ELSE 0

\* The Map m1 after the entries of m2 are counted into it in m2's order:
\* set() on a key already present keeps the key's place, a new key goes last
MapMerge(m1, m2) ==
    LET IsNew(e) == \A k \in DOMAIN m1 : m1[k][1] # e[1]
    IN [k \in DOMAIN m1 |-> <<m1[k][1], m1[k][2] + MapGetOrZero(m2, m1[k][1])>>]
       \o SelectSeq(m2, IsNew)

\* flightData.forEach(f => hourlyCounts.set(f.scheduledHour,
\* (hourlyCounts.get(f.scheduledHour) || 0) + 1)) over the records lo..hi: the
\* hours in the order in which they first occur, each with its count. Counting
\* the second half into the Map of the first half gives the Map of the whole.
RECURSIVE HourlyCountsIn(_, _, _)
HourlyCountsIn(fd, lo, hi) ==
    IF lo > hi THEN << >>
    ELSE IF lo = hi THEN << <<fd[lo].scheduledHour, 1>> >>
    ELSE LET mid == (lo + hi) \div 2
         IN MapMerge(HourlyCountsIn(fd, lo, mid), HourlyCountsIn(fd, mid + 1, hi))

HourlyCounts(fd) == HourlyCountsIn(fd, 1, Len(fd))

\* (mutant) count >= peakFlights: the last of the busiest hours wins
RECURSIVE PeakOf_LastWins(_)
PeakOf_LastWins(m) ==
    IF m = << >> THEN [peakHour |-> 0, peakFlights |-> 0]
    ELSE LET prev == PeakOf_LastWins(SubSeq(m, 1, Len(m) - 1))
             e == m[Len(m)]
         IN IF e[2] >= prev.peakFlights
            THEN [peakHour |-> e[1], peakFlights |-> e[2]]
            ELSE prev

\* hourlyCounts.forEach((count, hour) => { if (count > peakFlights) ... })
RECURSIVE PeakOf(_)
PeakOf(m) ==
    IF m = << >> THEN [peakHour |-> 0, peakFlights |-> 0]
    ELSE LET prev == PeakOf(SubSeq(m, 1, Len(m) - 1))
             e == m[Len(m)]
         IN IF e[2] > prev.peakFlights
            THEN [peakHour |-> e[1], peakFlights |-> e[2]]
            ELSE prev

IsMinor(f) == Abs(OrZero(f.delayMinutes)) < 15
\* (mutant) the sign of the delay is kept
IsMajor_Signed(f) == OrZero(f.delayMinutes) >= 15 /\ OrZero(f.delayMinutes) < 60

IsMajor(f) == Abs(OrZero(f.delayMinutes)) >= 15 /\ Abs(OrZero(f.delayMinutes)) < 60
IsCritical(f) == Abs(OrZero(f.delayMinutes)) >= 60

DelayDistribution(fd) ==
    [minor |-> Cardinality({i \in DOMAIN fd : IsMinor(fd[i])}),
     major |-> Cardinality({i \in DOMAIN fd : IsMajor(fd[i])}),
     critical |-> Cardinality({i \in DOMAIN fd : IsCritical(fd[i])})]

\* (mutant) the busiest hour is not spread over the 24 hours of the day
CapacityUtilization_PerHour(totalFlights, peakFlights) ==
    RoundTo2(totalFlights * 100, peakFlights)

\* Math.round(((totalFlights / (peakFlights * 24)) * 100) * 100) / 100
CapacityUtilization(totalFlights, peakFlights) ==
    RoundTo2(totalFlights * 100, peakFlights * 24)

\* Math.round((sum / totalFlights) * 100) / 100
AvgDelay(fd) == RoundTo2(SumDelays(fd), Len(fd))

AirportStatistics(fd) ==
    LET peak == PeakOf(HourlyCounts(fd))
    IN [totalFlights |-> Len(fd),
        delayedFlights |-> DelayedFlights(fd),
        avgDelay |-> AvgDelay(fd),
        peakHour |-> peak.peakHour,
        peakFlights |-> peak.peakFlights,
        delayDistribution |-> DelayDistribution(fd),
        capacityUtilization |-> CapacityUtilization(Len(fd), peak.peakFlights)]

NoStats == [totalFlights |-> -1]

----------------------------------------------------------------------------
(* getPeakHourAnalysis, the part after the log is obtained *)

\* Math.max(...hourlyCounts.values()); -Infinity when there is no value
RECURSIVE MaxFlights(_)
MaxFlights(m) ==
    IF m = << >> THEN NegInfinity
    ELSE IF Len(m) = 1 THEN m[1][2]
    ELSE Max(MaxFlights(SubSeq(m, 1, Len(m) - 1)), m[Len(m)][2])

\* (mutant) the share of the whole log instead of the share of the busiest hour
PeakHourBucket_OfTotal(e, maxFlights, totalFlights) ==
    [hour |-> e[1], flightCount |-> e[2],
     utilization |-> MathRound(e[2] * 100, totalFlights)]

\* ([hour, flightCount]) => ({hour, flightCount,
\*     utilization: Math.round((flightCount / maxFlights) * 100)})
PeakHourBucket(e, maxFlights, totalFlights) ==
    [hour |-> e[1], flightCount |-> e[2],
     utilization |-> MathRound(e[2] * 100, maxFlights)]

\* (mutant) an unstable sort: a bucket overtakes the buckets of equal count
RECURSIVE SortByFlightCount_Unstable(_)
SortByFlightCount_Unstable(s) ==
    IF s = << >> THEN << >>
    ELSE LET sorted == SortByFlightCount_Unstable(SubSeq(s, 1, Len(s) - 1))
             b == s[Len(s)]
             Before(x) == x.flightCount > b.flightCount
             NotBefore(x) == ~Before(x)
         IN SelectSeq(sorted, Before) \o <<b>> \o SelectSeq(sorted, NotBefore)

\* .sort((a, b) => b.flightCount - a.flightCount): Array.prototype.sort is
\* stable, so the result is the one ordering by falling flightCount that keeps
\* buckets of equal count in their order; built by inserting each bucket
\* behind the buckets that do not come after it
RECURSIVE SortByFlightCount(_)
SortByFlightCount(s) ==
    IF s = << >> THEN << >>
    ELSE LET sorted == SortByFlightCount(SubSeq(s, 1, Len(s) - 1))
             b == s[Len(s)]
             Before(x) == x.flightCount >= b.flightCount
             NotBefore(x) == ~Before(x)
         IN SelectSeq(sorted, Before) \o <<b>> \o SelectSeq(sorted, NotBefore)

PeakHourAnalysis(fd) ==
    LET hourlyCounts == HourlyCounts(fd)
        maxFlights == MaxFlights(hourlyCounts)
    IN SortByFlightCount([k \in DOMAIN hourlyCounts |->
                            PeakHourBucket(hourlyCounts[k], maxFlights, Len(fd))])

----------------------------------------------------------------------------
(* The statistics function applied to enumerated logs *)

DelayInputs == {Absent} \cup {Some(d) : d \in {-15, 0, 14, 59, 60}}
HourInputs == {6, 23}
SmallDelayInputs == {Some(d) : d \in {-1, 0, 1}}

\* A flight record cut down to the two fields the statistics read
InputRecord(dm, hr) == [delayMinutes |-> dm, scheduledHour |-> hr]

SeqsOf(S, n) == UNION {[1..k -> S] : k \in 0..n}

ShortLogs == SeqsOf({InputRecord(dm, hr) : dm \in DelayInputs, hr \in HourInputs}, MaxLen)
LongLogs == [1..AvgLen -> {InputRecord(dm, 6) : dm \in SmallDelayInputs}]

\* n flights dealt over the 24 hours in turn
RoundRobin(n) == [i \in 1..n |-> InputRecord(Some(0), (i - 1) % 24)]
RoundRobinLogs == {RoundRobin(n) : n \in {23, 24, 47, 48, 24 * NearFull - 1}}

InputLogs == ShortLogs \cup LongLogs \cup RoundRobinLogs \cup {simulateCSVLoading}

ComputeStatistics ==
    /\ phase = "input"
    /\ outStats' = AirportStatistics(inLog)
    /\ phase' = "done"
    /\ UNCHANGED <<inLog, outPeaks, outLog, drawn, inNumber, outAirline, outReport, heap, outRefs, engineVars, serverVars>>

\* Logs for the peak hour analysis: three hours, in every order
PeakHourInputs == {0, 6, 23}
PeakLogs == SeqsOf({InputRecord(Some(0), hr) : hr \in PeakHourInputs}, MaxPeakLen)
            \cup {RoundRobin(n) : n \in {25, 47}} \cup {simulateCSVLoading}

ComputePeakHourAnalysis ==
    /\ phase = "peakInput"
    /\ outPeaks' = PeakHourAnalysis(inLog)
    /\ phase' = "peakDone"
    /\ UNCHANGED <<inLog, outStats, outLog, drawn, inNumber, outAirline, outReport, heap, outRefs, engineVars, serverVars>>

----------------------------------------------------------------------------
(* The engine: cache, clock and calls in flight *)

Airports == {"BOM", "DEL"}
Calls == {"c1", "c2"}
ClockInputs == {0, 299999, 300000}

\* 5 * 60 * 1000
FreshnessMs == 5 * 60 * 1000

NoResult == [kind |-> "none", log |-> << >>, stats |-> NoStats, peaks |-> << >>]
ErrorResult == [kind |-> "error", log |-> << >>, stats |-> NoStats, peaks |-> << >>]
LogResult(fd) == [kind |-> "log", log |-> fd, stats |-> NoStats, peaks |-> << >>]
StatsResult(st) == [kind |-> "stats", log |-> << >>, stats |-> st, peaks |-> << >>]
PeaksResult(p) == [kind |-> "peaks", log |-> << >>, stats |-> NoStats, peaks |-> p]

\* Map.set(k, v)
MapSet(m, k, v) == [x \in DOMAIN m \cup {k} |-> IF x = k THEN v ELSE m[x]]

\* cachedData && lastUpdate && (Date.now() - lastUpdate.getTime()) < 5 * 60 * 1000
CacheIsFresh(a) ==
    /\ a \in DOMAIN dataCache
    /\ a \in DOMAIN lastUpdated
    /\ now - lastUpdated[a] < FreshnessMs

\* (mutant) a hit renews the timestamp of the entry
BeginGetFlightData_TouchesEntry(c, o, a) ==
    /\ pc[c] = "idle"
    /\ op' = [op EXCEPT ![c] = o]
    /\ arg' = [arg EXCEPT ![c] = a]
    /\ IF CacheIsFresh(a)
       THEN /\ flightData' = [flightData EXCEPT ![c] = dataCache[a]]
            /\ fetches' = [fetches EXCEPT ![c] = 0]
            /\ lastUpdated' = MapSet(lastUpdated, a, now)
            /\ IF o = "getFlightData"
               THEN /\ pc' = [pc EXCEPT ![c] = "done"]
                    /\ result' = [result EXCEPT ![c] = LogResult(dataCache[a])]
               ELSE /\ pc' = [pc EXCEPT ![c] = "gotData"]
                    /\ result' = [result EXCEPT ![c] = NoResult]
       ELSE /\ flightData' = [flightData EXCEPT ![c] = << >>]
            /\ fetches' = [fetches EXCEPT ![c] = 1]
            /\ pc' = [pc EXCEPT ![c] = "loading"]
            /\ result' = [result EXCEPT ![c] = NoResult]
            /\ UNCHANGED lastUpdated
    /\ UNCHANGED <<dataCache, now, lastLoad, statsVars>>

\* (mutant) a hit hands out the log of the source, not the resident log
BeginGetFlightData_SourceLog(c, o, a) ==
    /\ pc[c] = "idle"
    /\ op' = [op EXCEPT ![c] = o]
    /\ arg' = [arg EXCEPT ![c] = a]
    /\ IF CacheIsFresh(a)
       THEN /\ flightData' = [flightData EXCEPT ![c] = simulateCSVLoading]
            /\ fetches' = [fetches EXCEPT ![c] = 0]
            /\ IF o = "getFlightData"
               THEN /\ pc' = [pc EXCEPT ![c] = "done"]
                    /\ result' = [result EXCEPT ![c] = LogResult(simulateCSVLoading)]
               ELSE /\ pc' = [pc EXCEPT ![c] = "gotData"]
                    /\ result' = [result EXCEPT ![c] = NoResult]
       ELSE /\ flightData' = [flightData EXCEPT ![c] = << >>]
            /\ fetches' = [fetches EXCEPT ![c] = 1]
            /\ pc' = [pc EXCEPT ![c] = "loading"]
            /\ result' = [result EXCEPT ![c] = NoResult]
    /\ UNCHANGED <<dataCache, lastUpdated, now, lastLoad, statsVars>>

\* The synchronous part of getFlightData(a), run when method o is called: a hit
\* hands the cached array to the caller, a miss invokes the source.
StartGetFlightData(c, o, a) ==
    /\ op' = [op EXCEPT ![c] = o]
    /\ arg' = [arg EXCEPT ![c] = a]
    /\ IF CacheIsFresh(a)
       THEN /\ flightData' = [flightData EXCEPT ![c] = dataCache[a]]
            /\ fetches' = [fetches EXCEPT ![c] = 0]
            /\ IF o = "getFlightData"
               THEN /\ pc' = [pc EXCEPT ![c] = "done"]
                    /\ result' = [result EXCEPT ![c] = LogResult(dataCache[a])]
               ELSE /\ pc' = [pc EXCEPT ![c] = "gotData"]
                    /\ result' = [result EXCEPT ![c] = NoResult]
       ELSE /\ flightData' = [flightData EXCEPT ![c] = << >>]
            /\ fetches' = [fetches EXCEPT ![c] = 1]
            /\ pc' = [pc EXCEPT ![c] = "loading"]
            /\ result' = [result EXCEPT ![c] = NoResult]

\* The method called on a free slot
BeginGetFlightData(c, o, a) ==
    /\ pc[c] = "idle"
    /\ StartGetFlightData(c, o, a)
    /\ UNCHANGED <<dataCache, lastUpdated, now, lastLoad, statsVars>>

getFlightData(c, a) ==
    /\ BeginGetFlightData(c, "getFlightData", a)
    /\ UNCHANGED rtuCount

getAirportStatistics(c, a) ==
    /\ BeginGetFlightData(c, "getAirportStatistics", a)
    /\ UNCHANGED rtuCount

getPeakHourAnalysis(c, a) ==
    /\ BeginGetFlightData(c, "getPeakHourAnalysis", a)
    /\ UNCHANGED rtuCount

getRealTimeUpdates(c, a) ==
    /\ rtuCount' = rtuCount + 1
    /\ BeginGetFlightData(c, "getRealTimeUpdates", a)

\* (mutant) the log is stored and its timestamp is not
loadFlightDataFromCSV_DataOnly(c) ==
    /\ pc[c] = "loading"
    /\ dataCache' = MapSet(dataCache, "BOM", simulateCSVLoading)
    /\ flightData' = [flightData EXCEPT ![c] = simulateCSVLoading]
    /\ IF op[c] = "getFlightData"
       THEN /\ pc' = [pc EXCEPT ![c] = "done"]
            /\ result' = [result EXCEPT ![c] = LogResult(simulateCSVLoading)]
            /\ lastLoad' = [lastLoad EXCEPT
                            ![arg[c]] = {[at |-> now, log |-> simulateCSVLoading]}]
       ELSE /\ pc' = [pc EXCEPT ![c] = "gotData"]
            /\ result' = [result EXCEPT ![c] = NoResult]
            /\ UNCHANGED lastLoad
    /\ UNCHANGED <<lastUpdated, now, op, arg, fetches, rtuCount, statsVars>>

\* loadFlightDataFromCSV after the source answered: the cache is written under
\* the literal key 'BOM', whatever airport code the call was made for.
loadFlightDataFromCSV(c) ==
    /\ pc[c] = "loading"
    /\ dataCache' = MapSet(dataCache, "BOM", simulateCSVLoading)
    /\ lastUpdated' = MapSet(lastUpdated, "BOM", now)
    /\ flightData' = [flightData EXCEPT ![c] = simulateCSVLoading]
    /\ IF op[c] = "getFlightData"
       THEN /\ pc' = [pc EXCEPT ![c] = "done"]
            /\ result' = [result EXCEPT ![c] = LogResult(simulateCSVLoading)]
            /\ lastLoad' = [lastLoad EXCEPT
                            ![arg[c]] = {[at |-> now, log |-> simulateCSVLoading]}]
       ELSE /\ pc' = [pc EXCEPT ![c] = "gotData"]
            /\ result' = [result EXCEPT ![c] = NoResult]
            /\ UNCHANGED lastLoad
    /\ UNCHANGED <<now, op, arg, fetches, rtuCount, statsVars>>

\* (mutant) the cache is cleared before the source is known to have answered
loadFlightDataFails_DropsCache(c) ==
    /\ pc[c] = "loading"
    /\ pc' = [pc EXCEPT ![c] = "failed"]
    /\ result' = [result EXCEPT ![c] = ErrorResult]
    /\ dataCache' = MapSet(dataCache, "BOM", << >>)
    /\ UNCHANGED <<lastUpdated, now, op, arg, flightData, fetches,
                   lastLoad, rtuCount, statsVars>>

\* loadFlightDataFromCSV when the source throws: catch, log, rethrow.
loadFlightDataFails(c) ==
    /\ pc[c] = "loading"
    /\ pc' = [pc EXCEPT ![c] = "failed"]
    /\ result' = [result EXCEPT ![c] = ErrorResult]
    /\ UNCHANGED <<dataCache, lastUpdated, now, op, arg, flightData, fetches,
                   lastLoad, rtuCount, statsVars>>

\* getAirportStatistics after its await
finishAirportStatistics(c) ==
    /\ pc[c] = "gotData"
    /\ op[c] = "getAirportStatistics"
    /\ pc' = [pc EXCEPT ![c] = "done"]
    /\ result' = [result EXCEPT ![c] = StatsResult(AirportStatistics(flightData[c]))]
    /\ UNCHANGED <<dataCache, lastUpdated, now, op, arg, flightData, fetches,
                   lastLoad, rtuCount, statsVars>>

\* getPeakHourAnalysis after its await
finishPeakHourAnalysis(c) ==
    /\ pc[c] = "gotData"
    /\ op[c] = "getPeakHourAnalysis"
    /\ pc' = [pc EXCEPT ![c] = "done"]
    /\ result' = [result EXCEPT ![c] = PeaksResult(PeakHourAnalysis(flightData[c]))]
    /\ UNCHANGED <<dataCache, lastUpdated, now, op, arg, flightData, fetches,
                   lastLoad, rtuCount, statsVars>>

\* Outcomes of Math.random() < 0.1 over the records (the indexes selected) and of
\* Math.floor(Math.random() * 30); on the third record of the sample log, delayed
\* by 8, the two floors give a delay held at 0 and a delay of 9 with DELAYED
SelectionInputs == {{}, {3}}
RandomFloorInputs == {0, 16}

Perturb(flight, randomDelay) ==
    [flight EXCEPT
       !.delayMinutes = Some(Max(0, OrZero(flight.delayMinutes) + randomDelay)),
       !.status = IF randomDelay > 0 THEN "DELAYED" ELSE flight.status]

\* flightData.map(flight => ...), fl giving Math.floor(Math.random() * 30) for
\* the indexes whose Math.random() was below 0.1
UpdatedData(fd, fl) ==
    [i \in DOMAIN fd |->
       IF i \in DOMAIN fl THEN Perturb(fd[i], fl[i] - 15) ELSE fd[i]]

\* (mutant) the updated log is returned and not written back
finishRealTimeUpdates_NoWriteBack(c) ==
    /\ pc[c] = "gotData"
    /\ op[c] = "getRealTimeUpdates"
    /\ \E sel \in SelectionInputs :
         \E fl \in [sel \cap DOMAIN flightData[c] -> RandomFloorInputs] :
           result' = [result EXCEPT ![c] = LogResult(UpdatedData(flightData[c], fl))]
    /\ pc' = [pc EXCEPT ![c] = "done"]
    /\ UNCHANGED <<dataCache, lastUpdated, lastLoad, now, op, arg, flightData,
                   fetches, rtuCount, statsVars>>

\* (mutant) the map runs over the entry resident when the call writes back
finishRealTimeUpdates_RereadsCache(c) ==
    /\ pc[c] = "gotData"
    /\ op[c] = "getRealTimeUpdates"
    /\ \E sel \in SelectionInputs :
         LET resident == IF arg[c] \in DOMAIN dataCache
                         THEN dataCache[arg[c]] ELSE flightData[c]
         IN \E fl \in [sel \cap DOMAIN resident -> RandomFloorInputs] :
              LET updatedData == UpdatedData(resident, fl)
              IN /\ dataCache' = MapSet(dataCache, arg[c], updatedData)
                 /\ lastUpdated' = MapSet(lastUpdated, arg[c], now)
                 /\ result' = [result EXCEPT ![c] = LogResult(updatedData)]
    /\ pc' = [pc EXCEPT ![c] = "done"]
    /\ lastLoad' = [lastLoad EXCEPT ![arg[c]] = {}]
    /\ UNCHANGED <<now, op, arg, flightData, fetches, rtuCount, statsVars>>

\* (mutant) the updated log is written back under the timestamp of the entry
finishRealTimeUpdates_KeepsTimestamp(c) ==
    /\ pc[c] = "gotData"
    /\ op[c] = "getRealTimeUpdates"
    /\ \E sel \in SelectionInputs :
         \E fl \in [sel \cap DOMAIN flightData[c] -> RandomFloorInputs] :
           LET updatedData == UpdatedData(flightData[c], fl)
           IN /\ dataCache' = MapSet(dataCache, arg[c], updatedData)
              /\ result' = [result EXCEPT ![c] = LogResult(updatedData)]
    /\ pc' = [pc EXCEPT ![c] = "done"]
    /\ lastLoad' = [lastLoad EXCEPT ![arg[c]] = {}]
    /\ UNCHANGED <<lastUpdated, now, op, arg, flightData, fetches, rtuCount, statsVars>>

\* getRealTimeUpdates after its await: map, write back, return
finishRealTimeUpdates(c) ==
    /\ pc[c] = "gotData"
    /\ op[c] = "getRealTimeUpdates"
    /\ \E sel \in SelectionInputs :
         \E fl \in [sel \cap DOMAIN flightData[c] -> RandomFloorInputs] :
           LET updatedData == UpdatedData(flightData[c], fl)
           IN /\ dataCache' = MapSet(dataCache, arg[c], updatedData)
              /\ lastUpdated' = MapSet(lastUpdated, arg[c], now)
              /\ result' = [result EXCEPT ![c] = LogResult(updatedData)]
    /\ pc' = [pc EXCEPT ![c] = "done"]
    /\ lastLoad' = [lastLoad EXCEPT ![arg[c]] = {}]
    /\ UNCHANGED <<now, op, arg, flightData, fetches, rtuCount, statsVars>>

\* The caller takes the settled promise; the slot is free again.
Settle(c) ==
    /\ pc[c] \in {"done", "failed"}
    /\ pc' = [pc EXCEPT ![c] = "idle"]
    /\ op' = [op EXCEPT ![c] = "none"]
    /\ arg' = [arg EXCEPT ![c] = "BOM"]
    /\ flightData' = [flightData EXCEPT ![c] = << >>]
    /\ result' = [result EXCEPT ![c] = NoResult]
    /\ fetches' = [fetches EXCEPT ![c] = 0]
    /\ UNCHANGED <<dataCache, lastUpdated, now, lastLoad, rtuCount, statsVars>>

Tick(t) ==
    /\ t > now
    /\ now' = t
    /\ UNCHANGED <<dataCache, lastUpdated, pc, op, arg, flightData, result, fetches,
                   lastLoad, rtuCount, statsVars>>

----------------------------------------------------------------------------
(* The real-time update applied to enumerated logs *)

\* Math.random() is k / RandomGrid for a k of MathRandom
MathRandom == 0..(RandomGrid - 1)

\* Math.random() < 0.1
IsSelected(k) == 10 * k < RandomGrid

\* Math.floor(Math.random() * 30)
FloorRandom30(k) == (30 * k) \div RandomGrid

\* A flight record cut down to the two fields the update writes
UpdateRecord(st, dm) == [status |-> st, delayMinutes |-> dm]

UpdateRecordInputs ==
    {UpdateRecord("SCHEDULED", Absent), UpdateRecord("DEPARTED", Some(-16)),
     UpdateRecord("ARRIVED", Some(0)), UpdateRecord("DELAYED", Some(20))}
UpdateLogs == SeqsOf(UpdateRecordInputs, MaxUpdLen)

\* the draws of Math.random() < 0.1: one that selects and one that does not
SelectDraws == {0, RandomGrid - 1}

ApplyRealTimeUpdates ==
    /\ phase = "updateInput"
    /\ \E r \in [DOMAIN inLog -> SelectDraws] :
         \E k \in [{i \in DOMAIN inLog : IsSelected(r[i])} -> MathRandom] :
           /\ outLog' = UpdatedData(inLog, [i \in DOMAIN k |-> FloorRandom30(k[i])])
           /\ drawn' = [i \in DOMAIN k |-> FloorRandom30(k[i]) - 15]
    /\ phase' = "updated"
    /\ UNCHANGED <<inLog, outStats, outPeaks, inNumber, outAirline, outReport, heap, outRefs, engineVars, serverVars>>

----------------------------------------------------------------------------
(* The map of the real-time update on objects: the resident array holds
   references to flight records, and the array handed out before is that array *)

\* The number of the selected indexes up to i
RankIn(sel, i) == Cardinality({j \in sel : j <= i})

\* (mutant) a selected record is updated where it is and handed back
MapOnHeap_InPlace(h, refs, fl) ==
    [heap |-> [r \in DOMAIN h |->
                 IF \E i \in DOMAIN fl : refs[i] = r
                 THEN Perturb(h[r], fl[CHOOSE i \in DOMAIN fl : refs[i] = r] - 15)
                 ELSE h[r]],
     refs |-> refs]

\* flightData.map(flight => selected ? {...flight, delayMinutes, status} : flight):
\* a new array; a selected record is copied into a new object with the two
\* fields replaced, a record not selected is handed back as the object it is
MapOnHeap(h, refs, fl) ==
    [heap |-> h \o [k \in 1..Cardinality(DOMAIN fl) |->
                       LET i == CHOOSE j \in DOMAIN fl : RankIn(DOMAIN fl, j) = k
                       IN Perturb(h[refs[i]], fl[i] - 15)],
     refs |-> [i \in DOMAIN refs |->
                 IF i \in DOMAIN fl THEN Len(h) + RankIn(DOMAIN fl, i) ELSE refs[i]]]

\* Resident logs: the first records of the log of the source, and two records
\* without a delay and with a negative one
ResidentLogs ==
    {SubSeq(simulateCSVLoading, 1, n) : n \in 0..MaxResidentLen}
    \cup {<<ProcessedFlightData("7", "6E203", "SCHEDULED", Absent, 23),
            ProcessedFlightData("8", "SG305", "DEPARTED", Some(-16), 0)>>}

ApplyMapOnHeap ==
    /\ phase = "residentInput"
    /\ \E r \in [DOMAIN inLog -> SelectDraws] :
         \E k \in [{i \in DOMAIN inLog : IsSelected(r[i])} -> MathRandom] :
           LET mapped == MapOnHeap(heap, [i \in DOMAIN inLog |-> i],
                                   [i \in DOMAIN k |-> FloorRandom30(k[i])])
           IN /\ heap' = mapped.heap
              /\ outRefs' = mapped.refs
              /\ drawn' = [i \in DOMAIN k |-> FloorRandom30(k[i]) - 15]
    /\ phase' = "mapped"
    /\ UNCHANGED <<inLog, outStats, outPeaks, outLog, inNumber, outAirline, outReport,
                   engineVars, serverVars>>

----------------------------------------------------------------------------
(* extractAirline; a string is the sequence of its characters *)

UpperLetters == <<"A", "E", "G", "I", "K", "P", "Q", "S", "U", "X">>
LowerLetters == <<"a", "e", "g", "i", "k", "p", "q", "s", "u", "x">>
Digits == {"1", "6", "8"}
CharInputs == {UpperLetters[n] : n \in DOMAIN UpperLetters}
              \cup {LowerLetters[n] : n \in DOMAIN LowerLetters} \cup Digits

\* String.prototype.toUpperCase, on one character and on a string
UpperChar(ch) ==
    IF \E n \in DOMAIN LowerLetters : LowerLetters[n] = ch
    THEN UpperLetters[CHOOSE n \in DOMAIN LowerLetters : LowerLetters[n] = ch]
    ELSE ch
ToUpperCase(str) == [i \in DOMAIN str |-> UpperChar(str[i])]

\* str.substring(0, end) for end >= 0
Substring0(str, end) == SubSeq(str, 1, IF end < Len(str) THEN end ELSE Len(str))

\* const airlineCodes: Record<string, string>
airlineCodes ==
    [code \in {<<"A", "I">>, <<"6", "E">>, <<"S", "G">>, <<"U", "K">>,
               <<"G", "8">>, <<"I", "X">>, <<"Q", "P">>} |->
       CASE code = <<"A", "I">> -> "Air India"
         [] code = <<"6", "E">> -> "IndiGo"
         [] code = <<"S", "G">> -> "SpiceJet"
         [] code = <<"U", "K">> -> "Vistara"
         [] code = <<"G", "8">> -> "GoAir"
         [] code = <<"I", "X">> -> "Air India Express"
         [] code = <<"Q", "P">> -> "Akasa Air"]

\* (mutant) the code is looked up as it is written
extractAirline_CaseSensitive(flightNumber) ==
    LET code == Substring0(flightNumber, 2)
    IN IF code \in DOMAIN airlineCodes THEN airlineCodes[code] ELSE "Unknown Airline"

\* airlineCodes[flightNumber.substring(0, 2).toUpperCase()] || 'Unknown Airline'
extractAirline(flightNumber) ==
    LET code == ToUpperCase(Substring0(flightNumber, 2))
    IN IF code \in DOMAIN airlineCodes THEN airlineCodes[code] ELSE "Unknown Airline"

FlightNumberInputs == SeqsOf(CharInputs, MaxNumberLen)

ApplyExtractAirline ==
    /\ phase = "numberInput"
    /\ outAirline' = extractAirline(inNumber)
    /\ phase' = "airlineDone"
    /\ UNCHANGED <<inLog, outStats, outPeaks, outLog, drawn, inNumber, outReport, heap, outRefs, engineVars, serverVars>>

----------------------------------------------------------------------------
(* The flight-data route: analyzePeakHours *)

DigitChars == <<"0", "1", "2", "3", "4", "5", "6", "7", "8", "9">>

\* n.toString() for an integer n >= 0, as the sequence of its characters
RECURSIVE NumberToString(_)
NumberToString(n) ==
    IF n < 10 THEN <<DigitChars[n + 1]>>
    ELSE NumberToString(n \div 10) \o <<DigitChars[(n % 10) + 1]>>

\* str.padStart(targetLength, padChar)
RECURSIVE PadStart(_, _, _)
PadStart(str, targetLength, padChar) ==
    IF Len(str) >= targetLength THEN str
    ELSE PadStart(<<padChar>> \o str, targetLength, padChar)

\* `${hour.toString().padStart(2, '0')}:00`
HourLabel(hour) == PadStart(NumberToString(hour), 2, "0") \o <<":", "0", "0">>

\* peakHourData.filter(h => h.hour >= lo && h.hour < hi)
\*             .reduce((sum, h) => sum + h.flightCount, 0)
RECURSIVE SumFlightsWhere(_, _, _)
SumFlightsWhere(peakHourData, lo, hi) ==
    IF peakHourData = << >> THEN 0
    ELSE LET h == peakHourData[Len(peakHourData)]
             rest == SumFlightsWhere(SubSeq(peakHourData, 1, Len(peakHourData) - 1), lo, hi)
         IN IF h.hour >= lo /\ h.hour < hi THEN rest + h.flightCount ELSE rest

\* Math.round((part / totalFlights) * 100): 0 / 0 is NaN
Percentage(part, totalFlights) ==
    IF totalFlights = 0 THEN NaN ELSE MathRound(100 * part, totalFlights)

NoReport == [peakHour |-> << >>]

\* The object analyzePeakHours builds from the buckets the processor returned;
\* peakFlights is the count its first insight quotes.
\*   const peakHour = peakHourData[0]?.hour || 14
\*   const peakFlights = peakHourData[0]?.flightCount || 0
analyzePeakHours(peakHourData) ==
    LET morningFlights == SumFlightsWhere(peakHourData, 6, 12)
        afternoonFlights == SumFlightsWhere(peakHourData, 12, 18)
        eveningFlights == SumFlightsWhere(peakHourData, 18, 24)
        totalFlights == morningFlights + afternoonFlights + eveningFlights
        peakHour == IF peakHourData = << >> \/ peakHourData[1].hour = 0
                    THEN 14 ELSE peakHourData[1].hour
        peakFlights == IF peakHourData = << >> THEN 0 ELSE peakHourData[1].flightCount
    IN [peakHour |-> HourLabel(peakHour),
        peakFlights |-> peakFlights,
        morningPercentage |-> Percentage(morningFlights, totalFlights),
        afternoonPercentage |-> Percentage(afternoonFlights, totalFlights),
        eveningPercentage |-> Percentage(eveningFlights, totalFlights),
        hourlyDistribution |->
            [k \in DOMAIN peakHourData |->
                [hour |-> HourLabel(peakHourData[k].hour),
                 flights |-> peakHourData[k].flightCount,
                 utilization |-> peakHourData[k].utilization]]]

\* analyzePeakHours on the buckets of the resident log
ApplyAnalyzePeakHours ==
    /\ phase = "reportInput"
    /\ outPeaks' = PeakHourAnalysis(inLog)
    /\ outReport' = analyzePeakHours(PeakHourAnalysis(inLog))
    /\ phase' = "reported"
    /\ UNCHANGED <<inLog, outStats, outLog, drawn, inNumber, outAirline, heap, outRefs,
                   engineVars, serverVars>>

\* getAirportStatistics and getPeakHourAnalysis on the same resident log
ComputeBothViews ==
    /\ phase = "viewsInput"
    /\ outStats' = AirportStatistics(inLog)
    /\ outPeaks' = PeakHourAnalysis(inLog)
    /\ phase' = "viewsDone"
    /\ UNCHANGED <<inLog, outLog, drawn, inNumber, outAirline, outReport, heap, outRefs, engineVars, serverVars>>

----------------------------------------------------------------------------
(* A client that calls getRealTimeUpdates for one airport code again and again,
   one call after the other, each less than five minutes after the one before *)

Poller == "c1"

\* The client calls now: it notes the time; the call itself is the next step.
pollerDecides(a) ==
    /\ pc[Poller] = "idle"
    /\ pollsDecided = rtuCount
    /\ pollFor \in {"none", a}
    /\ lastPollAt >= 0 => now - lastPollAt < FreshnessMs
    /\ lastPollAt' = now
    /\ pollFor' = a
    /\ pollsDecided' = pollsDecided + 1
    /\ UNCHANGED <<engineVars, pureVars, besidePoller>>

pollerCalls ==
    /\ pollsDecided > rtuCount
    /\ getRealTimeUpdates(Poller, pollFor)

\* Time passes between the calls, not between the decision and its call
pollerWaits(t) ==
    /\ pollsDecided = rtuCount
    /\ Tick(t)

PollerClockInputs == {0, 299999, 300000, 599998}

----------------------------------------------------------------------------
(* The flight-tracking route: POST and processFlightTracking, a request served
   in a slot of Calls *)

NoTracking == [stage |-> "none", airportCode |-> "", includeRealTime |-> FALSE]
NoTrackingReply == [status |-> 0, success |-> FALSE, airport |-> "", flights |-> << >>]

\* Request bodies: one that does not parse, one without an airport code, and
\* the airport codes with and without includeRealTime
TrackingBodies ==
    {[parses |-> FALSE, airportCode |-> "", includeRealTime |-> FALSE]}
    \cup [parses : {TRUE}, airportCode : Airports \cup {""}, includeRealTime : BOOLEAN]

getFlightStatus(status, delayMinutes) ==
    IF delayMinutes # Absent /\ ValueOf(delayMinutes) > 0 THEN "delayed"
    ELSE CASE status = "SCHEDULED" -> "scheduled"
           [] status = "DEPARTED" -> "departed"
           [] status = "ARRIVED" -> "arrived"
           [] status = "CANCELLED" -> "cancelled"
           [] OTHER -> "scheduled"

TrackingFlight(i, fn, st, dm) ==
    [id |-> i, flightNumber |-> fn, status |-> st, delayMinutes |-> dm]

\* flightData.map(flight => ({...})), the fields that come from the record
TrackingFlights(fd) ==
    [i \in DOMAIN fd |->
       TrackingFlight(fd[i].id, fd[i].flightNumber,
                      getFlightStatus(fd[i].status, fd[i].delayMinutes),
                      OrZero(fd[i].delayMinutes))]

generateFallbackFlightData ==
    << TrackingFlight("1", "AI101", "departed", 15),
       TrackingFlight("2", "6E203", "delayed", 45),
       TrackingFlight("3", "SG305", "scheduled", 0),
       TrackingFlight("4", "UK407", "scheduled", 0),
       TrackingFlight("5", "AI509", "scheduled", 0) >>

\* NextResponse.json({success: true, data: result})
TrackingOk(airportCode, flights) ==
    [status |-> 200, success |-> TRUE, airport |-> airportCode, flights |-> flights]

\* NextResponse.json({success: false, error: ...}, {status})
TrackingError(status) ==
    [status |-> status, success |-> FALSE, airport |-> "", flights |-> << >>]

\* (mutant) processFlightTracking lets the error through to the catch of POST
onProcessingError_Rethrows(airportCode) == TrackingError(500)

\* The catch of processFlightTracking: the fallback is the result, and POST
\* answers with it
onProcessingError(airportCode) == TrackingOk(airportCode, generateFallbackFlightData)

\* The slot of a call whose promise the handler has taken
FreeSlot(c) ==
    /\ pc' = [pc EXCEPT ![c] = "idle"]
    /\ op' = [op EXCEPT ![c] = "none"]
    /\ arg' = [arg EXCEPT ![c] = "BOM"]
    /\ flightData' = [flightData EXCEPT ![c] = << >>]
    /\ result' = [result EXCEPT ![c] = NoResult]
    /\ fetches' = [fetches EXCEPT ![c] = 0]

\* The getRealTimeUpdates calls made and those that requests under way will make
UpdatesDue ==
    rtuCount + Cardinality({d \in Calls : tracking[d].stage = "first"
                                           /\ tracking[d].includeRealTime})

\* POST up to the first await of processFlightTracking: the synchronous part of
\* processor.getFlightData(airportCode)
trackingPOST(c, body) ==
    /\ tracking[c].stage = "none"
    /\ pc[c] = "idle"
    /\ IF ~body.parses \/ body.airportCode = ""
       THEN /\ trackingReply' = [trackingReply EXCEPT ![c] =
                                   TrackingError(IF body.parses THEN 400 ELSE 500)]
            /\ UNCHANGED <<tracking, pc, op, arg, flightData, result, fetches>>
       ELSE /\ body.includeRealTime => UpdatesDue < MaxTrackedUpdates
            /\ StartGetFlightData(c, "getFlightData", body.airportCode)
            /\ tracking' = [tracking EXCEPT ![c] =
                              [stage |-> "first", airportCode |-> body.airportCode,
                               includeRealTime |-> body.includeRealTime]]
            /\ trackingReply' = [trackingReply EXCEPT ![c] = NoTrackingReply]
    /\ UNCHANGED <<dataCache, lastUpdated, now, lastLoad, rtuCount, pureVars, besideTracking>>

\* processFlightTracking after `await processor.getFlightData(airportCode)`: the
\* catch, or the answer, or on includeRealTime the synchronous part of
\* processor.getRealTimeUpdates(airportCode)
trackingAfterGetFlightData(c) ==
    /\ tracking[c].stage = "first"
    /\ pc[c] \in {"done", "failed"}
    /\ IF pc[c] = "done" /\ tracking[c].includeRealTime
       THEN /\ StartGetFlightData(c, "getRealTimeUpdates", tracking[c].airportCode)
            /\ rtuCount' = rtuCount + 1
            /\ tracking' = [tracking EXCEPT ![c].stage = "second"]
            /\ UNCHANGED trackingReply
       ELSE /\ FreeSlot(c)
            /\ tracking' = [tracking EXCEPT ![c] = NoTracking]
            /\ trackingReply' = [trackingReply EXCEPT ![c] =
                  IF pc[c] = "failed"
                  THEN onProcessingError(tracking[c].airportCode)
                  ELSE TrackingOk(tracking[c].airportCode, TrackingFlights(result[c].log))]
            /\ UNCHANGED rtuCount
    /\ UNCHANGED <<dataCache, lastUpdated, now, lastLoad, pureVars, besideTracking>>

\* processFlightTracking after `await processor.getRealTimeUpdates(airportCode)`
trackingAfterRealTimeUpdates(c) ==
    /\ tracking[c].stage = "second"
    /\ pc[c] \in {"done", "failed"}
    /\ FreeSlot(c)
    /\ tracking' = [tracking EXCEPT ![c] = NoTracking]
    /\ trackingReply' = [trackingReply EXCEPT ![c] =
          IF pc[c] = "failed"
          THEN onProcessingError(tracking[c].airportCode)
          ELSE TrackingOk(tracking[c].airportCode, TrackingFlights(result[c].log))]
    /\ UNCHANGED <<dataCache, lastUpdated, now, lastLoad, rtuCount, pureVars,
                   besideTracking>>

----------------------------------------------------------------------------
(* The socket server: the three polling loops of one socket *)

\* 'request-flight-updates' starts a loop that emits 'flight-update', and so on
UpdateKinds == {"flight-update", "optimization-update", "analytics-update"}

\* io.on('connection', socket => ...): the handlers are registered
socketConnects ==
    /\ socketStatus = "absent"
    /\ socketStatus' = "connected"
    /\ UNCHANGED <<intervals, disconnectListeners, pendingQueries, tickCount, emitted,
                   failed, engineVars, pureVars, besideSocket>>

\* socket.on('disconnect', () => { clearInterval(interval) })
AddDisconnectListener(listeners, interval) == Append(listeners, interval)

\* The handler of a request-...-updates event: setInterval, and a listener of
\* disconnect that clears this interval
requestUpdates(kind) ==
    /\ socketStatus = "connected"
    /\ intervals' = Append(intervals, [update |-> kind, cleared |-> FALSE])
    /\ disconnectListeners' = AddDisconnectListener(disconnectListeners, Len(intervals) + 1)
    /\ UNCHANGED <<socketStatus, pendingQueries, tickCount, emitted, failed,
                   engineVars, pureVars, besideSocket>>

\* The callback of an interval that is not cleared runs up to its await: the
\* query is sent
intervalFires(i) ==
    /\ ~intervals[i].cleared
    /\ tickCount' = tickCount + 1
    /\ pendingQueries' = pendingQueries \cup {<<i, tickCount + 1>>}
    /\ UNCHANGED <<socketStatus, intervals, disconnectListeners, emitted, failed,
                   engineVars, pureVars, besideSocket>>

\* The query resolves: socket.emit('...-update', {...})
queryResolves(q) ==
    /\ pendingQueries' = pendingQueries \ {q}
    /\ emitted' = Append(emitted, [update |-> intervals[q[1]].update, interval |-> q[1],
                                    tick |-> q[2], socket |-> socketStatus])
    /\ UNCHANGED <<socketStatus, intervals, disconnectListeners, tickCount, failed,
                   engineVars, pureVars, besideSocket>>

\* (mutant) the catch tears the loop down
queryRejects_ClearsInterval(q) ==
    /\ pendingQueries' = pendingQueries \ {q}
    /\ failed' = Append(failed, [interval |-> q[1], tick |-> q[2]])
    /\ intervals' = [intervals EXCEPT ![q[1]].cleared = TRUE]
    /\ UNCHANGED <<socketStatus, disconnectListeners, tickCount, emitted,
                   engineVars, pureVars, besideSocket>>

\* The query rejects: catch (error) { console.error(...) }
queryRejects(q) ==
    /\ pendingQueries' = pendingQueries \ {q}
    /\ failed' = Append(failed, [interval |-> q[1], tick |-> q[2]])
    /\ UNCHANGED <<socketStatus, intervals, disconnectListeners, tickCount, emitted,
                   engineVars, pureVars, besideSocket>>

\* The socket disconnects: every listener of disconnect runs
socketDisconnects ==
    /\ socketStatus = "connected"
    /\ socketStatus' = "disconnected"
    /\ intervals' = [i \in DOMAIN intervals |->
                       IF \E k \in DOMAIN disconnectListeners : disconnectListeners[k] = i
                       THEN [intervals[i] EXCEPT !.cleared = TRUE]
                       ELSE intervals[i]]
    /\ UNCHANGED <<disconnectListeners, pendingQueries, tickCount, emitted, failed,
                   engineVars, pureVars, besideSocket>>

----------------------------------------------------------------------------
(* The routes that ask the AI completion API: optimization,
   advanced-optimization, predictive-analytics and nlp-query *)

AIHandlers == {"optimization", "advanced-optimization", "predictive-analytics", "nlp-query"}

\* Whether handler h writes its result to the database before it answers:
\* the two optimization routes always, nlp-query when the body asks for it
Stores(h, saveToDatabase) ==
    \/ h \in {"optimization", "advanced-optimization"}
    \/ (h = "nlp-query" /\ saveToDatabase)

\* A content string by what decides its handling: the markdown fence around it
\* and what is inside; "object" and "null" are JSON texts, "text" is not
Content(fence, body) == [fence |-> fence, body |-> body]
ContentInputs ==
    {Content("none", "empty")}
    \cup {Content(f, b) : f \in {"none", "json", "plain"}, b \in {"text", "object", "null"}}

\* What `await zai.chat.completions.create(...)` settles with: a rejection, a
\* completion without choices, one whose content is null, or a content string
CompletionInputs ==
    {[kind |-> k, content |-> Content("none", "empty")] :
        k \in {"rejected", "noChoices", "nullContent"}}
    \cup {[kind |-> "content", content |-> c] : c \in ContentInputs}

NoAICall == [handler |-> "none", stage |-> "none", stores |-> FALSE, stored |-> FALSE,
             completion |-> [kind |-> "none", content |-> Content("none", "empty")]]
NoAIReply == [status |-> 0, success |-> FALSE, data |-> "none"]

\* cleanResponse.replace(/```json\n?/, '').replace(/\n?```$/, '') and the like
StripFence(c) == Content("none", c.body)

\* Whether JSON.parse(c) returns
IsJSON(c) == c.fence = "none" /\ c.body \in {"object", "null"}

\* What a process function hands to POST
Returned(data) == [threw |-> FALSE, data |-> data]
Thrown == [threw |-> TRUE, data |-> "none"]

\* (mutant) the error of the parse leaves the process function
onParseError_Throws(h) == Thrown

\* The catch around the parse logs the error, and the function goes on to
\* return the fallback object of the handler
onParseError(h) == Returned("fallback")

\* The process function of handler h once the completion has settled.  Only
\* processOptimization strips a markdown fence before it parses; the functions
\* that read fields of the parsed value fail on null inside the same try.
ProcessCompletion(h, completion) ==
    IF completion.kind = "rejected" THEN Thrown
    ELSE IF completion.kind = "noChoices" THEN onParseError(h)
    ELSE IF completion.kind = "nullContent" \/ completion.content.body = "empty"
    THEN Returned("fallback")
    ELSE LET clean == IF h = "optimization" /\ completion.content.fence # "none"
                      THEN StripFence(completion.content)
                      ELSE completion.content
         IN IF ~IsJSON(clean) THEN onParseError(h)
            ELSE IF clean.body = "null" /\ h \in {"advanced-optimization", "nlp-query"}
            THEN onParseError(h)
            ELSE Returned(clean.body)

AIOk(data) == [status |-> 200, success |-> TRUE, data |-> data]
AIError(status) == [status |-> status, success |-> FALSE, data |-> "none"]

\* POST up to `await zai.chat.completions.create(...)`; a body without the
\* required fields is answered 400
aiPOST(h, complete, saveToDatabase) ==
    /\ aiCall.stage \in {"none", "replied"}
    /\ IF complete
       THEN /\ aiCall' = [NoAICall EXCEPT !.handler = h, !.stage = "completing",
                                          !.stores = Stores(h, saveToDatabase)]
            /\ aiReply' = NoAIReply
       ELSE /\ aiCall' = [NoAICall EXCEPT !.handler = h, !.stage = "replied"]
            /\ aiReply' = AIError(400)
    /\ UNCHANGED <<engineVars, pureVars, besideAI>>

\* The completion settles and the process function returns or throws; POST
\* answers, or first awaits the database
completionSettles(completion) ==
    /\ aiCall.stage = "completing"
    /\ LET r == ProcessCompletion(aiCall.handler, completion)
       IN IF r.threw
          THEN /\ aiCall' = [aiCall EXCEPT !.stage = "replied", !.completion = completion]
               /\ aiReply' = AIError(500)
          ELSE IF aiCall.stores
          THEN /\ aiCall' = [aiCall EXCEPT !.stage = "storing", !.completion = completion]
               /\ aiReply' = [NoAIReply EXCEPT !.data = r.data]
          ELSE /\ aiCall' = [aiCall EXCEPT !.stage = "replied", !.completion = completion]
               /\ aiReply' = AIOk(r.data)
    /\ UNCHANGED <<engineVars, pureVars, besideAI>>

\* The database write settles; a failure is caught and logged, and the
\* request is answered either way
storeSettles(stored) ==
    /\ aiCall.stage = "storing"
    /\ aiCall' = [aiCall EXCEPT !.stage = "replied", !.stored = stored]
    /\ aiReply' = AIOk(aiReply.data)
    /\ UNCHANGED <<engineVars, pureVars, besideAI>>

----------------------------------------------------------------------------
(* The health route: the metrics of the module and the two handlers *)

\* if (systemMetrics.responseTimes.length > 100)  ...  .slice(-100)
KeepLast == 100

\* Date.now() - startTime of a health check, in ms
ResponseTimeInputs == {3}

NoHealthReply == [success |-> FALSE, status |-> 0, errorRate |-> <<0, 1>>]

\* responseTimes.slice(-n): the last n entries, all of them if there are fewer
SliceLast(s, n) == IF Len(s) <= n THEN s ELSE SubSeq(s, Len(s) - n + 1, Len(s))

\* GET: the four component checks catch their own errors, so the handler
\* reaches its metrics update, which runs without an await.  errorRate is the
\* quotient errorCount / totalRequests, held as <<numerator, denominator>>.
healthGET(responseTime) ==
    LET pushed == Append(responseTimes, responseTime)
    IN /\ totalRequests' = totalRequests + 1
       /\ responseTimes' = IF Len(pushed) > KeepLast THEN SliceLast(pushed, KeepLast)
                                                     ELSE pushed
       /\ healthReply' = [success |-> TRUE, status |-> 200,
                          errorRate |-> <<errorCount, totalRequests + 1>>]
       /\ UNCHANGED <<errorCount, engineVars, pureVars, besideHealth>>

\* POST with a body that parses: the error is logged and counted
healthPOST ==
    /\ errorCount' = errorCount + 1
    /\ UNCHANGED <<totalRequests, responseTimes, healthReply, engineVars, pureVars, besideHealth>>

----------------------------------------------------------------------------
(* Specifications *)

ServerInit ==
    /\ totalRequests = 0
    /\ errorCount = 0
    /\ responseTimes = << >>
    /\ healthReply = NoHealthReply
    /\ lastPollAt = -1
    /\ pollFor = "none"
    /\ pollsDecided = 0
    /\ tracking = [c \in Calls |-> NoTracking]
    /\ trackingReply = [c \in Calls |-> NoTrackingReply]
    /\ socketStatus = "absent"
    /\ intervals = << >>
    /\ disconnectListeners = << >>
    /\ pendingQueries = {}
    /\ tickCount = 0
    /\ emitted = << >>
    /\ failed = << >>
    /\ aiCall = NoAICall
    /\ aiReply = NoAIReply

EngineInit ==
    /\ dataCache = << >>
    /\ lastUpdated = << >>
    /\ now = 0
    /\ pc = [c \in Calls |-> "idle"]
    /\ op = [c \in Calls |-> "none"]
    /\ arg = [c \in Calls |-> "BOM"]
    /\ flightData = [c \in Calls |-> << >>]
    /\ result = [c \in Calls |-> NoResult]
    /\ fetches = [c \in Calls |-> 0]
    /\ lastLoad = [a \in Airports |-> {}]
    /\ rtuCount = 0

Init ==
    /\ EngineInit
    /\ inLog = << >>
    /\ outStats = NoStats
    /\ phase = "off"
    /\ outPeaks = << >>
    /\ outLog = << >>
    /\ drawn = << >>
    /\ inNumber = << >>
    /\ outAirline = ""
    /\ outReport = NoReport
    /\ heap = << >>
    /\ outRefs = << >>
    /\ ServerInit

Next ==
    \/ \E c \in Calls, a \in Airports : getFlightData(c, a)
    \/ \E c \in Calls, a \in Airports : getAirportStatistics(c, a)
    \/ \E c \in Calls, a \in Airports : getPeakHourAnalysis(c, a)
    \/ \E c \in Calls, a \in Airports : rtuCount < MaxUpdates /\ getRealTimeUpdates(c, a)
    \/ \E c \in Calls : loadFlightDataFromCSV(c)
    \/ \E c \in Calls : loadFlightDataFails(c)
    \/ \E c \in Calls : finishAirportStatistics(c)
    \/ \E c \in Calls : finishPeakHourAnalysis(c)
    \/ \E c \in Calls : finishRealTimeUpdates(c)
    \/ \E c \in Calls : Settle(c)
    \/ \E t \in ClockInputs : Tick(t)

Spec == Init /\ [][Next]_vars

\* The engine polled for real-time updates and nothing else
NextPolling ==
    \/ \E c \in Calls, a \in Airports : rtuCount < MaxPolls /\ getRealTimeUpdates(c, a)
    \/ \E c \in Calls : loadFlightDataFromCSV(c)
    \/ \E c \in Calls : loadFlightDataFails(c)
    \/ \E c \in Calls : finishRealTimeUpdates(c)
    \/ \E c \in Calls : Settle(c)
    \/ \E t \in ClockInputs : Tick(t)

SpecPolling == Init /\ [][NextPolling]_vars

InitStats ==
    /\ EngineInit
    /\ inLog \in InputLogs
    /\ outStats = NoStats
    /\ phase = "input"
    /\ outPeaks = << >>
    /\ outLog = << >>
    /\ drawn = << >>
    /\ inNumber = << >>
    /\ outAirline = ""
    /\ outReport = NoReport
    /\ heap = << >>
    /\ outRefs = << >>
    /\ ServerInit

NextStats == ComputeStatistics

SpecStats == InitStats /\ [][NextStats]_vars

InitPeaks ==
    /\ EngineInit
    /\ inLog \in PeakLogs
    /\ outStats = NoStats
    /\ phase = "peakInput"
    /\ outPeaks = << >>
    /\ outLog = << >>
    /\ drawn = << >>
    /\ inNumber = << >>
    /\ outAirline = ""
    /\ outReport = NoReport
    /\ heap = << >>
    /\ outRefs = << >>
    /\ ServerInit

NextPeaks == ComputePeakHourAnalysis

SpecPeaks == InitPeaks /\ [][NextPeaks]_vars

InitUpdates ==
    /\ EngineInit
    /\ inLog \in UpdateLogs
    /\ outStats = NoStats
    /\ phase = "updateInput"
    /\ outPeaks = << >>
    /\ outLog = << >>
    /\ drawn = << >>
    /\ inNumber = << >>
    /\ outAirline = ""
    /\ outReport = NoReport
    /\ heap = << >>
    /\ outRefs = << >>
    /\ ServerInit

NextUpdates == ApplyRealTimeUpdates

SpecUpdates == InitUpdates /\ [][NextUpdates]_vars

InitAirline ==
    /\ EngineInit
    /\ inLog = << >>
    /\ outStats = NoStats
    /\ phase = "numberInput"
    /\ outPeaks = << >>
    /\ outLog = << >>
    /\ drawn = << >>
    /\ inNumber \in FlightNumberInputs
    /\ outAirline = ""
    /\ outReport = NoReport
    /\ heap = << >>
    /\ outRefs = << >>
    /\ ServerInit

NextAirline == ApplyExtractAirline

SpecAirline == InitAirline /\ [][NextAirline]_vars

InitViews ==
    /\ EngineInit
    /\ inLog \in PeakLogs
    /\ outStats = NoStats
    /\ phase = "viewsInput"
    /\ outPeaks = << >>
    /\ outLog = << >>
    /\ drawn = << >>
    /\ inNumber = << >>
    /\ outAirline = ""
    /\ outReport = NoReport
    /\ heap = << >>
    /\ outRefs = << >>
    /\ ServerInit

NextViews == ComputeBothViews

SpecViews == InitViews /\ [][NextViews]_vars

\* Hours of one and of two digits, the hour 0 among them
ReportHourInputs == {0, 9, 14, 23}
ReportLogs == SeqsOf({InputRecord(Some(0), hr) : hr \in ReportHourInputs}, MaxReportLen)

InitReport ==
    /\ EngineInit
    /\ inLog \in ReportLogs
    /\ outStats = NoStats
    /\ phase = "reportInput"
    /\ outPeaks = << >>
    /\ outLog = << >>
    /\ drawn = << >>
    /\ inNumber = << >>
    /\ outAirline = ""
    /\ outReport = NoReport
    /\ heap = << >>
    /\ outRefs = << >>
    /\ ServerInit

NextReport == ApplyAnalyzePeakHours

SpecReport == InitReport /\ [][NextReport]_vars

\* The resident array is the objects 1..Len(inLog) of the heap, in this order
InitResident ==
    /\ EngineInit
    /\ inLog \in ResidentLogs
    /\ outStats = NoStats
    /\ phase = "residentInput"
    /\ outPeaks = << >>
    /\ outLog = << >>
    /\ drawn = << >>
    /\ inNumber = << >>
    /\ outAirline = ""
    /\ outReport = NoReport
    /\ heap = inLog
    /\ outRefs = << >>
    /\ ServerInit

NextResident == ApplyMapOnHeap

SpecResident == InitResident /\ [][NextResident]_vars

\* The engine under the polling client
NextRepeat ==
    \/ \E a \in Airports : pollsDecided < MaxRepeats /\ pollerDecides(a)
    \/ pollerCalls
    \/ loadFlightDataFromCSV(Poller)
    \/ loadFlightDataFails(Poller)
    \/ finishRealTimeUpdates(Poller)
    \/ Settle(Poller)
    \/ \E t \in PollerClockInputs : pollerWaits(t)

SpecRepeat == Init /\ [][NextRepeat]_vars

\* The engine under the flight-tracking route
NextTracking ==
    \/ \E c \in Calls, body \in TrackingBodies : trackingPOST(c, body)
    \/ \E c \in Calls : trackingAfterGetFlightData(c)
    \/ \E c \in Calls : trackingAfterRealTimeUpdates(c)
    \/ \E c \in Calls : loadFlightDataFromCSV(c)
    \/ \E c \in Calls : loadFlightDataFails(c)
    \/ \E c \in Calls : finishRealTimeUpdates(c)
    \/ \E t \in ClockInputs : Tick(t)

SpecTracking == Init /\ [][NextTracking]_vars

\* The socket server with one socket
NextSocket ==
    \/ socketConnects
    \/ \E kind \in UpdateKinds : Len(intervals) < MaxIntervals /\ requestUpdates(kind)
    \/ \E i \in DOMAIN intervals : tickCount < MaxTicks /\ intervalFires(i)
    \/ \E q \in pendingQueries : queryResolves(q)
    \/ \E q \in pendingQueries : queryRejects(q)
    \/ socketDisconnects

SpecSocket == Init /\ [][NextSocket]_vars

\* The AI routes, one request at a time
NextAI ==
    \/ \E h \in AIHandlers, complete, saveToDatabase \in BOOLEAN :
            aiPOST(h, complete, saveToDatabase)
    \/ \E completion \in CompletionInputs : completionSettles(completion)
    \/ \E stored \in BOOLEAN : storeSettles(stored)

SpecAI == Init /\ [][NextAI]_vars

\* The health route on its own
NextHealth ==
    \/ \E responseTime \in ResponseTimeInputs :
           totalRequests < MaxChecks /\ healthGET(responseTime)
    \/ errorCount < MaxErrorLogs /\ healthPOST

SpecHealth == Init /\ [][NextHealth]_vars

----------------------------------------------------------------------------
(* Properties of the statistics, stated on the log and the result *)

HoursOf(fd) == {fd[i].scheduledHour : i \in DOMAIN fd}
FlightsIn(fd, h) == Cardinality({i \in DOMAIN fd : fd[i].scheduledHour = h})
FirstIndex(fd, h) ==
    CHOOSE i \in DOMAIN fd :
        fd[i].scheduledHour = h /\ \A j \in 1..(i - 1) : fd[j].scheduledHour # h
DelaysOf(fd) == [i \in DOMAIN fd |-> OrZero(fd[i].delayMinutes)]

\* round(p / q) for q > 0 with a half rounded away from zero
RoundHalfAway(p, q) ==
    IF p >= 0 THEN (2 * p + q) \div (2 * q) ELSE -((2 * (-p) + q) \div (2 * q))

\* C4: for an empty log avgDelay and capacityUtilization are the number 0, and
\* capacityUtilization is 0 whenever peakFlights is 0.
C4_EmptyLogGivesZero ==
    phase = "done" =>
        /\ inLog = << >> =>
              /\ outStats.avgDelay = Finite(0)
              /\ outStats.capacityUtilization = Finite(0)
        /\ outStats.peakFlights = 0 => outStats.capacityUtilization = Finite(0)

\* C5: totalFlights is the log length and delayedFlights the number of records
\* whose delayMinutes is present and strictly positive, so delayed <= total.
C5_TotalAndDelayed ==
    phase = "done" =>
        /\ outStats.totalFlights = Len(inLog)
        /\ outStats.delayedFlights =
              Cardinality({i \in DOMAIN inLog :
                              \E d \in inLog[i].delayMinutes : d > 0})
        /\ outStats.delayedFlights <= outStats.totalFlights

C5_Witness ==
    /\ phase = "done"
    /\ Len(inLog) = 3
    /\ \E i \in DOMAIN inLog : inLog[i].delayMinutes = Absent
    /\ \E i \in DOMAIN inLog : \E d \in inLog[i].delayMinutes : d < 0
    /\ outStats.delayedFlights = 1

\* C6: every record is in exactly one of minor (|delay| < 15), major
\* (15 <= |delay| <= 59), critical (|delay| >= 60), an absent delay counting
\* as 0; the three counts add up to totalFlights.
C6_DelayDistribution ==
    phase = "done" =>
        LET mag == [i \in DOMAIN inLog |-> Abs(DelaysOf(inLog)[i])]
            dist == outStats.delayDistribution
        IN /\ dist.minor = Cardinality({i \in DOMAIN inLog : mag[i] < 15})
           /\ dist.major = Cardinality({i \in DOMAIN inLog : 15 <= mag[i] /\ mag[i] <= 59})
           /\ dist.critical = Cardinality({i \in DOMAIN inLog : mag[i] >= 60})
           /\ dist.minor + dist.major + dist.critical = outStats.totalFlights

C6_Witness ==
    /\ phase = "done"
    /\ \E i \in DOMAIN inLog : inLog[i].delayMinutes = Absent
    /\ \E i \in DOMAIN inLog : inLog[i].delayMinutes = Some(-15)
    /\ \E i \in DOMAIN inLog : inLog[i].delayMinutes = Some(60)
    /\ outStats.delayDistribution = [minor |-> 1, major |-> 1, critical |-> 1]

\* C7: for a non-empty log peakFlights is the largest number of records sharing
\* one scheduledHour, and peakHour is, among the hours with that many records,
\* the one whose first record comes earliest in the log.
C7_PeakHourFirstEncountered ==
    (phase = "done" /\ inLog # << >>) =>
        /\ outStats.peakHour \in HoursOf(inLog)
        /\ FlightsIn(inLog, outStats.peakHour) = outStats.peakFlights
        /\ \A h \in HoursOf(inLog) :
              /\ FlightsIn(inLog, h) <= outStats.peakFlights
              /\ FlightsIn(inLog, h) = outStats.peakFlights =>
                    FirstIndex(inLog, outStats.peakHour) <= FirstIndex(inLog, h)

\* a tie in which the hour met first is not the numerically smallest
C7_Witness ==
    /\ phase = "done"
    /\ Len(inLog) = 2
    /\ inLog[1].scheduledHour = 23
    /\ inLog[2].scheduledHour = 6
    /\ outStats.peakHour = 23
    /\ outStats.peakFlights = 1

\* C8: five flights with delays [20, 17, 8, 0, 44], all in hour 6, give
\* totalFlights 5, delayedFlights 4, avgDelay 17.8, {minor 2, major 3,
\* critical 0}, peakHour 6, peakFlights 5, capacityUtilization 4.17.
C8_SampleLogScenario ==
    (/\ phase = "done"
     /\ DelaysOf(inLog) = <<20, 17, 8, 0, 44>>
     /\ \A i \in DOMAIN inLog : inLog[i].scheduledHour = 6) =>
        outStats = [totalFlights |-> 5,
                    delayedFlights |-> 4,
                    avgDelay |-> Finite(1780),
                    peakHour |-> 6,
                    peakFlights |-> 5,
                    delayDistribution |-> [minor |-> 2, major |-> 3, critical |-> 0],
                    capacityUtilization |-> Finite(417)]

\* the built-in sample log is that log
C8_Witness ==
    /\ phase = "done"
    /\ inLog = simulateCSVLoading
    /\ DelaysOf(inLog) = <<20, 17, 8, 0, 44>>
    /\ outStats.avgDelay = Finite(1780)

\* C9: for a non-empty log avgDelay is the mean of the delays (absent as 0)
\* rounded to two decimals, a half rounded away from zero.
C9_AvgDelayHalfAwayFromZero ==
    (phase = "done" /\ inLog # << >>) =>
        outStats.avgDelay = Finite(RoundHalfAway(100 * SumDelays(inLog), Len(inLog)))

\* C10 as stated: for a non-empty log capacityUtilization is 100 only when all 24
\* hours carry the same number of flights.
C10_FullOnlyWhenAllHoursEqual ==
    (phase = "done" /\ inLog # << >>) =>
        (outStats.capacityUtilization = Finite(10000) =>
            /\ Cardinality(HoursOf(inLog)) = 24
            /\ \A h \in HoursOf(inLog) : FlightsIn(inLog, h) = outStats.peakFlights)

\* C10 amended: for a non-empty log capacityUtilization is the number nearest to
\* totalFlights / (peakFlights * 24) * 100 with two decimals, is greater than 0 and
\* at most 100, is 100 when all 24 hours carry the same number of flights, and is
\* 100 otherwise only when totalFlights / (peakFlights * 24) is at least 0.99995.
C10_CapacityUtilization ==
    (phase = "done" /\ inLog # << >>) =>
        LET cu == outStats.capacityUtilization
            total == Len(inLog)
            slots == outStats.peakFlights * 24
        IN /\ \A h \in HoursOf(inLog) : FlightsIn(inLog, h) <= outStats.peakFlights
           /\ \E h \in HoursOf(inLog) : FlightsIn(inLog, h) = outStats.peakFlights
           /\ cu.kind = "finite"
           /\ 2 * Abs(cu.cents * slots - 10000 * total) <= slots
           /\ cu.cents > 0
           /\ cu.cents <= 10000
           /\ total = slots => cu.cents = 10000
           /\ cu.cents = 10000 => 20000 * total >= 19999 * slots

\* 100 is reported for a day in which one hour carries fewer flights than the rest
C10_Witness ==
    /\ phase = "done"
    /\ outStats.capacityUtilization = Finite(10000)
    /\ FlightsIn(inLog, 23) < outStats.peakFlights
    /\ Len(inLog) < outStats.peakFlights * 24

----------------------------------------------------------------------------
(* Properties of the peak hour analysis, stated on the log and the result *)

\* C11: the buckets come in non-increasing flightCount order, and buckets of
\* equal flightCount in the order in which their hours first occur in the log.
C11_SortedStable ==
    phase = "peakDone" =>
        \A i, j \in DOMAIN outPeaks :
            i < j =>
               /\ outPeaks[i].flightCount >= outPeaks[j].flightCount
               /\ outPeaks[i].flightCount = outPeaks[j].flightCount =>
                     FirstIndex(inLog, outPeaks[i].hour) < FirstIndex(inLog, outPeaks[j].hour)

\* the busiest hour occurs last in the log and moves to the front; the two
\* hours that tie behind it stay in log order, the larger hour first
C11_Witness ==
    /\ phase = "peakDone"
    /\ [i \in DOMAIN inLog |-> inLog[i].scheduledHour] = <<23, 6, 0, 0>>
    /\ [k \in DOMAIN outPeaks |-> outPeaks[k].hour] = <<0, 23, 6>>

----------------------------------------------------------------------------
(* Properties of the real-time update, stated on the log and the result *)

\* C13: for a log whose delayMinutes are optional signed integers, no record
\* of the sequence returned by getRealTimeUpdates has a delayMinutes below 0.
C13_NoDelayBelowZero ==
    phase = "updated" =>
        \A i \in DOMAIN outLog : \A d \in outLog[i].delayMinutes : d >= 0

\* C14: each selected record gets delayMinutes = max(0, old + d), an absent old
\* delay counting as 0, and status DELAYED when d > 0 and its old status when
\* d <= 0; the possible values of d are exactly the integers -15..15.
C14_PerturbationRange ==
    /\ {FloorRandom30(k) - 15 : k \in MathRandom} = -15..15
    /\ phase = "updated" =>
          \A i \in DOMAIN drawn :
              /\ outLog[i].delayMinutes =
                    Some(Max(0, OrZero(inLog[i].delayMinutes) + drawn[i]))
              /\ outLog[i].status =
                    IF drawn[i] > 0 THEN "DELAYED" ELSE inLog[i].status

----------------------------------------------------------------------------
(* Properties of the cache, stated on the steps of the calls *)

\* Call c is issued in this step as getFlightData(a)
IssuesGetFlightData(c, a) ==
    pc[c] = "idle" /\ pc'[c] # "idle" /\ op'[c] = "getFlightData" /\ arg'[c] = a

\* C1: after a getFlightData(a) that loaded with success, a getFlightData(a)
\* issued less than five minutes later returns the same sequence without
\* invoking the source; one issued when the entry is five minutes old or older
\* invokes the source exactly once.
C1_FreshEntryServedFromCache ==
    [][\A c \in Calls, a \in Airports :
         IssuesGetFlightData(c, a) =>
            /\ \A l \in lastLoad[a] :
                  now - l.at < FreshnessMs =>
                     (fetches'[c] = 0 /\ result'[c] = LogResult(l.log))
            /\ (a \in DOMAIN lastUpdated /\ now - lastUpdated[a] >= FreshnessMs) =>
                  fetches'[c] = 1]_vars

\* C2: when getFlightData(a) misses and the source succeeds, on return the cache
\* entry for a is the loaded sequence, the timestamp for a is the time of the
\* load and the loaded sequence is returned.
C2_RefreshReplacesEntryOfKey ==
    [][\A c \in Calls :
         (pc[c] = "loading" /\ pc'[c] = "done" /\ op[c] = "getFlightData") =>
            /\ result'[c] = LogResult(simulateCSVLoading)
            /\ arg[c] \in DOMAIN dataCache'
            /\ dataCache'[arg[c]] = simulateCSVLoading
            /\ arg[c] \in DOMAIN lastUpdated'
            /\ lastUpdated'[arg[c]] = now]_vars

\* C3: when the source fails the call fails with an error and no data, and
\* neither the miss nor the failure changes any cache entry or timestamp.
C3_SourceFailureLeavesCache ==
    [][\A c \in Calls :
         /\ (pc[c] = "idle" /\ pc'[c] = "loading") =>
               (dataCache' = dataCache /\ lastUpdated' = lastUpdated)
         /\ (pc[c] = "loading" /\ pc'[c] = "failed") =>
               /\ dataCache' = dataCache
               /\ lastUpdated' = lastUpdated
               /\ result'[c] = ErrorResult]_vars

\* a call has failed while a stale entry for its key stays in the cache
C3_Witness ==
    \E c \in Calls :
        /\ pc[c] = "failed"
        /\ op[c] = "getFlightData"
        /\ result[c] = ErrorResult
        /\ arg[c] \in DOMAIN dataCache
        /\ dataCache[arg[c]] = simulateCSVLoading
        /\ now - lastUpdated[arg[c]] >= FreshnessMs

----------------------------------------------------------------------------
(* Properties of the airline lookup, stated on the flight number and the result *)

\* The carrier table of the claim: code, name
CarrierTable ==
    {<< <<"A", "I">>, "Air India">>, << <<"6", "E">>, "IndiGo">>,
     << <<"S", "G">>, "SpiceJet">>, << <<"U", "K">>, "Vistara">>,
     << <<"G", "8">>, "GoAir">>, << <<"I", "X">>, "Air India Express">>,
     << <<"Q", "P">>, "Akasa Air">>}

LowerChar(ch) ==
    IF \E n \in DOMAIN UpperLetters : UpperLetters[n] = ch
    THEN LowerLetters[CHOOSE n \in DOMAIN UpperLetters : UpperLetters[n] = ch]
    ELSE ch

\* The spellings of str that differ from it in the case of letters only
CaseVariants(str) ==
    {[i \in DOMAIN str |-> IF up[i] THEN UpperChar(str[i]) ELSE LowerChar(str[i])] :
        up \in [DOMAIN str -> BOOLEAN]}

\* C18: the lookup never fails; it gives the carrier of the table whose code is
\* the upper-cased first two characters of the flight number, "Unknown Airline"
\* for every other prefix and for a flight number of fewer than two characters,
\* and the same result for every letter-case variant of the flight number.
C18_AirlineLookup ==
    phase = "airlineDone" =>
        LET prefix == [i \in 1..(IF Len(inNumber) < 2 THEN Len(inNumber) ELSE 2) |->
                          UpperChar(inNumber[i])]
        IN /\ outAirline \in {row[2] : row \in CarrierTable} \cup {"Unknown Airline"}
           /\ \A row \in CarrierTable : prefix = row[1] <=> outAirline = row[2]
           /\ (\A row \in CarrierTable : prefix # row[1]) <=> outAirline = "Unknown Airline"
           /\ Len(inNumber) < 2 => outAirline = "Unknown Airline"
           /\ \A v \in CaseVariants(inNumber) : extractAirline(v) = outAirline

\* a flight number written in lower case finds its carrier
C18_Witness ==
    /\ phase = "airlineDone"
    /\ inNumber = <<"i", "x", "1">>
    /\ outAirline = "Air India Express"

----------------------------------------------------------------------------
(* Properties of the real-time update and of the reads, stated on the steps *)

\* Call c takes a step
StepOf(c) == pc[c] # pc'[c]

\* Call c is issued in this step as method o for airport a
Issues(c, o, a) ==
    pc[c] = "idle" /\ pc'[c] # "idle" /\ op'[c] = o /\ arg'[c] = a

\* Call c, a getRealTimeUpdates, returns in this step
ReturnsUpdates(c) ==
    pc[c] = "gotData" /\ pc'[c] = "done" /\ op[c] = "getRealTimeUpdates"

\* Record g is record f as it is or perturbed by one of the values -15..15
IsUpdateOf(g, f) ==
    \/ g = f
    \/ \E d \in -15..15 :
          g = [f EXCEPT !.delayMinutes = Some(Max(0, OrZero(f.delayMinutes) + d)),
                        !.status = IF d > 0 THEN "DELAYED" ELSE f.status]

ReadMethods == {"getFlightData", "getAirportStatistics", "getPeakHourAnalysis"}

\* C15: getRealTimeUpdates(a) stores the sequence it returns as the cache entry
\* for a and sets a's timestamp to the current time before it returns, and a
\* getRealTimeUpdates(a) that finds the entry fresh works on that entry, so a
\* second call perturbs the output of the first, not the log of the source.
C15_WritesBackWhatItReturns ==
    [][\A c \in Calls :
         /\ ReturnsUpdates(c) =>
               /\ result'[c].kind = "log"
               /\ arg[c] \in DOMAIN dataCache' /\ arg[c] \in DOMAIN lastUpdated'
               /\ dataCache'[arg[c]] = result'[c].log
               /\ lastUpdated'[arg[c]] = now
               /\ \A i \in DOMAIN flightData[c] :
                     IsUpdateOf(result'[c].log[i], flightData[c][i])
         /\ \A a \in Airports :
               (Issues(c, "getRealTimeUpdates", a) /\ CacheIsFresh(a)) =>
                   (fetches'[c] = 0 /\ flightData'[c] = dataCache[a])]_vars

\* the third record of the sample log, delayed by 8, is delayed by 10 after two
\* calls that each added 1; one call on the log of the source gives 0 or 9
C15_Witness ==
    \E c \in Calls :
        /\ pc[c] = "done"
        /\ op[c] = "getRealTimeUpdates"
        /\ rtuCount = 2
        /\ fetches[c] = 0
        /\ result[c].log[3].delayMinutes = Some(10)
        /\ dataCache[arg[c]] = result[c].log
        /\ lastUpdated[arg[c]] = now

\* C19: a getRealTimeUpdates(a) that returns writes the update of the log it
\* read when it was issued over whatever entry is resident, so of two calls
\* that both read before either wrote the one that writes last wins and the
\* perturbations written by the other are lost.
C19_LastWriterWins ==
    [][\A c \in Calls :
         ReturnsUpdates(c) =>
            /\ dataCache'[arg[c]] = result'[c].log
            /\ Len(dataCache'[arg[c]]) = Len(flightData[c])
            /\ \A i \in DOMAIN flightData[c] :
                  IsUpdateOf(dataCache'[arg[c]][i], flightData[c][i])
            /\ \A d \in Calls \ {c} :
                  (pc[d] = "done" /\ op[d] = "getRealTimeUpdates" /\ arg[d] = arg[c]
                   /\ flightData[d] = flightData[c]) =>
                     \A i \in DOMAIN flightData[c] :
                        result'[c].log[i] = flightData[c][i] =>
                           dataCache'[arg[c]][i] = flightData[d][i]]_vars

\* both calls read the same log; the one call set the delay of the third
\* record, the other call wrote last and left that record as it was read: the
\* entry holds the delay of before the two calls
C19_Witness ==
    \E c, d \in Calls :
        /\ c # d
        /\ pc[c] = "done" /\ pc[d] = "done"
        /\ op[c] = "getRealTimeUpdates" /\ op[d] = "getRealTimeUpdates"
        /\ arg[c] = arg[d]
        /\ now = 0
        /\ flightData[c] = flightData[d]
        /\ result[c].log[3] # flightData[c][3]
        /\ dataCache[arg[c]] = result[d].log
        /\ dataCache[arg[c]][3] = flightData[c][3]

\* C16: a getFlightData, getAirportStatistics or getPeakHourAnalysis that finds
\* the entry of its airport fresh changes no cache entry and no timestamp in
\* any of its steps, and a step that changes the cache belongs to a
\* getRealTimeUpdates or to a call that did not find its entry fresh.
C16_ReadsLeaveCache ==
    [][/\ \A c \in Calls :
            (/\ StepOf(c)
             /\ IF pc[c] = "idle"
                THEN op'[c] \in ReadMethods /\ CacheIsFresh(arg'[c])
                ELSE op[c] \in ReadMethods /\ fetches[c] = 0) =>
                (dataCache' = dataCache /\ lastUpdated' = lastUpdated)
       /\ (dataCache' # dataCache \/ lastUpdated' # lastUpdated) =>
            \E c \in Calls :
                /\ StepOf(c)
                /\ pc[c] # "idle"
                /\ op[c] = "getRealTimeUpdates" \/ fetches[c] = 1]_vars

\* a peak hour analysis was served from an entry that is almost five minutes
\* old, and the entry has kept its timestamp
C16_Witness ==
    \E c \in Calls :
        /\ pc[c] = "done"
        /\ op[c] = "getPeakHourAnalysis"
        /\ fetches[c] = 0
        /\ result[c].kind = "peaks"
        /\ now = 299999
        /\ lastUpdated[arg[c]] = 0
        /\ dataCache[arg[c]] = simulateCSVLoading

\* C17: a getAirportStatistics(a) or getPeakHourAnalysis(a) that finds the entry
\* of a fresh computes its result from that entry; the entry is what the last
\* getRealTimeUpdates(a) returned when no write came after it.
C17_ViewsFromResidentLog ==
    [][\A c \in Calls :
         /\ \A a \in Airports, o \in {"getAirportStatistics", "getPeakHourAnalysis"} :
               (Issues(c, o, a) /\ CacheIsFresh(a)) =>
                  /\ fetches'[c] = 0
                  /\ flightData'[c] = dataCache[a]
                  /\ \A d \in Calls :
                        (/\ pc[d] = "done" /\ op[d] = "getRealTimeUpdates" /\ arg[d] = a
                         /\ dataCache[a] = result[d].log) =>
                            flightData'[c] = result[d].log
         /\ (pc[c] = "gotData" /\ pc'[c] = "done" /\ op[c] = "getAirportStatistics") =>
               result'[c] = StatsResult(AirportStatistics(flightData[c]))
         /\ (pc[c] = "gotData" /\ pc'[c] = "done" /\ op[c] = "getPeakHourAnalysis") =>
               result'[c] = PeaksResult(PeakHourAnalysis(flightData[c]))]_vars

\* the statistics are those of the log that the real-time update returned, with
\* the third record delayed by 9: the mean is 18, not the 17.8 of the source
C17_Witness ==
    \E c, d \in Calls :
        /\ pc[d] = "done" /\ op[d] = "getRealTimeUpdates"
        /\ pc[c] = "done" /\ op[c] = "getAirportStatistics"
        /\ arg[c] = arg[d]
        /\ fetches[c] = 0
        /\ result[d].log[3].delayMinutes = Some(9)
        /\ result[c] = StatsResult(AirportStatistics(result[d].log))
        /\ result[c].stats.avgDelay = Finite(1800)

\* C20: a getFlightData that does not find its entry fresh invokes the source
\* once even while another call is loading for the same key; each load that
\* completes writes the log and the time of its completion in one step, so the
\* entry that remains is that of the load that completed last and the two maps
\* always hold the same keys.
C20_LoadsAreNotCoalesced ==
    [][\A c \in Calls :
         /\ \A a \in Airports :
               (Issues(c, "getFlightData", a) /\ ~CacheIsFresh(a)) =>
                   (fetches'[c] = 1 /\ pc'[c] = "loading")
         /\ (pc[c] = "loading" /\ pc'[c] = "done") =>
               /\ fetches[c] = 1
               /\ \E k \in Airports :
                     /\ dataCache' = MapSet(dataCache, k, result'[c].log)
                     /\ lastUpdated' = MapSet(lastUpdated, k, now)
         /\ DOMAIN dataCache' = DOMAIN lastUpdated']_vars

\* two calls for the same key each invoked the source; the first load completed
\* at time 0 and the second at 299999, and the entry carries the later time
C20_Witness ==
    /\ now = 299999
    /\ \A c \in Calls :
          /\ pc[c] = "done"
          /\ op[c] = "getFlightData"
          /\ arg[c] = "BOM"
          /\ fetches[c] = 1
    /\ dataCache["BOM"] = simulateCSVLoading
    /\ lastUpdated["BOM"] = 299999

\* The entry and the timestamp of key b are the same before and after the step
EntryUnchanged(b) ==
    /\ (b \in DOMAIN dataCache') = (b \in DOMAIN dataCache)
    /\ (b \in DOMAIN lastUpdated') = (b \in DOMAIN lastUpdated)
    /\ b \in DOMAIN dataCache => dataCache'[b] = dataCache[b]
    /\ b \in DOMAIN lastUpdated => lastUpdated'[b] = lastUpdated[b]

\* C23: no step of a getFlightData(a), whether it hits or refreshes, changes
\* the cache entry or the timestamp of another airport code b # a.
C23_EntriesIsolatedPerAirport ==
    [][\A c \in Calls :
         (StepOf(c) /\ (IF pc[c] = "idle" THEN op'[c] ELSE op[c]) = "getFlightData") =>
            \A b \in Airports \ {IF pc[c] = "idle" THEN arg'[c] ELSE arg[c]} :
                EntryUnchanged(b)]_vars

----------------------------------------------------------------------------
(* Properties of the health route *)

\* C29: the errorRate of a successful health GET lies in [0, 1], and the
\* stored responseTimes never number more than 100.
C29_ErrorRateIsARate ==
    /\ healthReply.success =>
          /\ 0 <= healthReply.errorRate[1]
          /\ healthReply.errorRate[1] <= healthReply.errorRate[2]
    /\ Len(responseTimes) <= KeepLast

\* the half of C29 on the stored response times
ResponseTimesBounded == Len(responseTimes) <= KeepLast

----------------------------------------------------------------------------
(* The two views of one log *)

RECURSIVE SumFlightCounts(_)
SumFlightCounts(p) ==
    IF p = << >> THEN 0
    ELSE SumFlightCounts(SubSeq(p, 1, Len(p) - 1)) + p[Len(p)].flightCount

\* C26: for a non-empty log the first bucket of getPeakHourAnalysis has the
\* peakHour and the peakFlights of getAirportStatistics on the same log, its
\* utilization is 100, and the flightCounts of the buckets sum to totalFlights.
C26_ViewsAgree ==
    (phase = "viewsDone" /\ inLog # << >>) =>
        /\ outPeaks # << >>
        /\ outPeaks[1].hour = outStats.peakHour
        /\ outPeaks[1].flightCount = outStats.peakFlights
        /\ outPeaks[1].utilization = 100
        /\ SumFlightCounts(outPeaks) = outStats.totalFlights

\* two hours tie for the busiest; both views name the one that occurs first
C26_Witness ==
    /\ phase = "viewsDone"
    /\ [i \in DOMAIN inLog |-> inLog[i].scheduledHour] = <<0, 23, 6, 23, 6>>
    /\ outStats.peakHour = 23
    /\ outStats.peakFlights = 2
    /\ outPeaks[1].hour = 23
    /\ Len(outPeaks) = 3

----------------------------------------------------------------------------
(* Properties of the flight-data route *)

\* C30: for every non-empty log the peak-hours analysis reports as peakHour the
\* zero-padded hour of the first bucket of getPeakHourAnalysis, for every hour
\* in 0..23, and as peak flight count that bucket's flightCount.
C30_ReportsFirstBucket ==
    (phase = "reported" /\ inLog # << >>) =>
        /\ outReport.peakHour = HourLabel(outPeaks[1].hour)
        /\ outReport.peakFlights = outPeaks[1].flightCount

\* the claim of C30 kept to the hours 1..23
ReportsFirstBucketFromHourOne ==
    (phase = "reported" /\ inLog # << >> /\ outPeaks[1].hour # 0) =>
        /\ outReport.peakHour = HourLabel(outPeaks[1].hour)
        /\ outReport.peakFlights = outPeaks[1].flightCount

----------------------------------------------------------------------------
(* Properties of repeated polling *)

\* C25: under a client that calls getRealTimeUpdates(a) again and again with
\* gaps shorter than five minutes, the entry for a is fresh at every call once
\* it exists, the source is invoked only while there is no entry for a yet, and
\* a call works on the resident log, so that the perturbations accumulate.
C25_PolledEntryStaysFresh ==
    /\ (pollsDecided > rtuCount /\ pollFor \in DOMAIN dataCache) => CacheIsFresh(pollFor)
    /\ pc[Poller] = "loading" => pollFor \notin DOMAIN dataCache
    /\ (pc[Poller] = "gotData" /\ fetches[Poller] = 0) =>
          flightData[Poller] = dataCache[pollFor]

\* the third call, made 599998 ms after the first, finds the entry fresh and
\* reads the log that the first two calls perturbed
C25_Witness ==
    /\ rtuCount = 3
    /\ now = 599998
    /\ pc[Poller] = "gotData"
    /\ fetches[Poller] = 0
    /\ lastUpdated[pollFor] = 299999
    /\ flightData[Poller][3].delayMinutes = Some(10)

----------------------------------------------------------------------------
(* Properties of the real-time update, stated on the objects *)

\* C24: getRealTimeUpdates returns a sequence of the length and order of the
\* resident log; every record keeps its id, flight number, scheduledHour and
\* airportCode; a record not selected is returned unchanged (the same object);
\* and the records of the sequence handed out before are not altered.
C24_UpdatesCopyTheRecords ==
    phase = "mapped" =>
        /\ Len(outRefs) = Len(inLog)
        /\ \A i \in DOMAIN inLog :
              /\ heap[outRefs[i]].id = inLog[i].id
              /\ heap[outRefs[i]].flightNumber = inLog[i].flightNumber
              /\ heap[outRefs[i]].scheduledHour = inLog[i].scheduledHour
              /\ heap[outRefs[i]].airportCode = inLog[i].airportCode
              /\ i \notin DOMAIN drawn => outRefs[i] = i
              /\ heap[i] = inLog[i]

\* the second record is selected and delayed by 14 more minutes: the array
\* returned holds the first object and a new third one, the second object is
\* as it was
C24_Witness ==
    /\ phase = "mapped"
    /\ inLog = SubSeq(simulateCSVLoading, 1, 2)
    /\ DOMAIN drawn = {2}
    /\ drawn[2] = 14
    /\ outRefs = <<1, 3>>
    /\ heap[3].delayMinutes = Some(31)
    /\ heap[3].status = "DELAYED"
    /\ heap[2].delayMinutes = Some(17)

----------------------------------------------------------------------------
(* Properties of the flight-tracking route *)

\* The request the slot serves in this step
Tracked(c) == IF tracking[c].stage = "none" THEN tracking'[c] ELSE tracking[c]

\* C28: an error thrown by the processor, in getFlightData or in
\* getRealTimeUpdates, is answered with success=true and the five fallback
\* flights, never with an error response; a request with includeRealTime writes
\* the cache entry of its airport when its update returns, and no step of a
\* request without it writes the cache or a timestamp unless it loads.
C28_TrackingSwallowsErrors ==
    [][\A c \in Calls :
         /\ (tracking[c].stage # "none" /\ pc[c] = "failed" /\ tracking'[c].stage = "none") =>
               trackingReply'[c] =
                   [status |-> 200, success |-> TRUE, airport |-> tracking[c].airportCode,
                    flights |-> generateFallbackFlightData]
         /\ (tracking[c].stage # "none" /\ trackingReply'[c] # trackingReply[c]) =>
               trackingReply'[c].success
         /\ (tracking[c].stage = "second" /\ pc[c] = "gotData" /\ pc'[c] = "done") =>
               /\ tracking[c].airportCode \in DOMAIN dataCache'
               /\ dataCache'[tracking[c].airportCode] = result'[c].log
               /\ lastUpdated'[tracking[c].airportCode] = now
         /\ ((pc'[c] # pc[c] \/ tracking'[c] # tracking[c])
              /\ ~Tracked(c).includeRealTime /\ pc[c] # "loading") =>
               UNCHANGED <<dataCache, lastUpdated>>]_vars

\* one request was answered with the fallback after the source failed; the
\* other, with includeRealTime, was answered with the third flight delayed by 9
\* minutes, which is what the cache now holds
C28_Witness ==
    \E c, d \in Calls :
        /\ trackingReply[c].success
        /\ trackingReply[c].flights = generateFallbackFlightData
        /\ trackingReply[d].success
        /\ trackingReply[d].flights[3].delayMinutes = 9
        /\ trackingReply[d].flights[3].status = "delayed"
        /\ dataCache["BOM"][3].delayMinutes = Some(9)

----------------------------------------------------------------------------
(* Properties of the socket server *)

\* C22: a query that fails in a tick is caught and logged; the tick emits no
\* update, sends no second query, and leaves every interval as it is, so that
\* the loop runs on and later ticks query and emit again.
C22_FailedTickIsSkipped ==
    [][failed' # failed =>
          /\ Len(failed') = Len(failed) + 1
          /\ emitted' = emitted
          /\ intervals' = intervals
          /\ pendingQueries' =
                pendingQueries \ {<<failed'[Len(failed')].interval, failed'[Len(failed')].tick>>}
          /\ tickCount' = tickCount]_vars

\* a tick of an interval failed, and a later tick of the same interval emitted
C22_Witness ==
    \E k \in DOMAIN failed, m \in DOMAIN emitted :
        /\ emitted[m].interval = failed[k].interval
        /\ emitted[m].tick > failed[k].tick
        /\ emitted[m].socket = "connected"

\* C27: whatever request-...-updates events the socket sent, every interval
\* started for it is cleared once it has disconnected, and no update is emitted
\* on it after the disconnect.
C27_NothingAfterDisconnect ==
    /\ socketStatus = "disconnected" => \A i \in DOMAIN intervals : intervals[i].cleared
    /\ \A m \in DOMAIN emitted : emitted[m].socket = "connected"

\* the half of C27 on the intervals, and what holds of the ticks: none is
\* started after the disconnect
IntervalsClearedOnDisconnect ==
    socketStatus = "disconnected" => \A i \in DOMAIN intervals : intervals[i].cleared
NoTickAfterDisconnect ==
    [][tickCount' # tickCount => socketStatus = "connected"]_vars

----------------------------------------------------------------------------
(* Properties of the AI routes *)

\* The content is empty, or the text the handler hands to JSON.parse is no JSON
EmptyOrUnparsable(h, completion) ==
    /\ completion.kind \in {"nullContent", "content"}
    /\ \/ completion.kind = "nullContent"
       \/ completion.content.body \in {"empty", "text"}
       \/ (completion.content.fence # "none" /\ h # "optimization")

\* C21: in each of the four handlers, when the content of the completion is
\* empty or fails to parse as JSON, the process function returns the fallback
\* object and the request is answered with success=true, never with an error.
C21_ParseFailureFallsBack ==
    (aiCall.stage = "replied" /\ EmptyOrUnparsable(aiCall.handler, aiCall.completion)) =>
        aiReply = [status |-> 200, success |-> TRUE, data |-> "fallback"]

\* predictive-analytics got a JSON object inside a markdown fence, which it
\* does not strip, and answered with its fallback
C21_Witness ==
    /\ aiCall.stage = "replied"
    /\ aiCall.handler = "predictive-analytics"
    /\ aiCall.completion = [kind |-> "content", content |-> Content("json", "object")]
    /\ aiReply.success
    /\ aiReply.data = "fallback"

====
